---------------------------- MODULE Spec2Model ----------------------------
(***************************************************************************)
(* Double-entry ledger engine of finance-tracker: the createTransaction    *)
(* route (idempotency lookup, bootstrap, account resolution, entry         *)
(* building, RPC commit), the create_transaction_with_entries /            *)
(* delete_transaction / restore_transaction database functions, the        *)
(* deferred balance trigger, the header PATCH route and the balance        *)
(* calculator.                                                             *)
(***************************************************************************)
EXTENDS Integers, Sequences, FiniteSets, TLC

VARIABLES
  accounts,      \* table public.accounts, in created_at order
  transactions,  \* table public.transactions (set of header rows)
  entries,       \* table public.transaction_entries (set of rows)
  nextId,        \* next fresh row id (gen_random_uuid stands for a fresh id)
  pc,            \* per request: position in the POST handler
  req,           \* per request: the validated body
  missing,       \* per request: bootstrap's missingAccounts, read before insert
  built,         \* per request: the accounts read and the entries built
  resp,          \* per request: the HTTP response
  seenDone,      \* per request: the requests that had returned when it arrived
  view,          \* the body of the latest GET response (list or analytics)
  client,        \* one browser: the localStorage queue and its running sync
  limiter        \* rateLimit.ts: rateLimitStore, the clock, the calls answered

vars == <<accounts, transactions, entries, nextId, pc, req, missing, built,
          resp, seenDone, view, client, limiter>>

-----------------------------------------------------------------------------
(* Strings.  A string is a tuple of one-character strings, so that         *)
(* toLowerCase, includes and trim are computed character by character.     *)

LowerChar(c) ==
  CASE c = "A" -> "a" [] c = "C" -> "c" [] c = "D" -> "d" [] c = "E" -> "e"
    [] c = "F" -> "f" [] c = "G" -> "g" [] c = "I" -> "i" [] c = "M" -> "m"
    [] c = "O" -> "o" [] c = "S" -> "s" [] c = "W" -> "w"
    [] OTHER -> c

ToLower(s) == [i \in 1..Len(s) |-> LowerChar(s[i])]

\* String.prototype.includes: sub occurs in s as a contiguous run
Includes(s, sub) ==
  \E k \in 0..(Len(s) - Len(sub)) :
    \A i \in 1..Len(sub) : s[k + i] = sub[i]

\* String.prototype.trim
Trim(s) ==
  LET idx == {i \in 1..Len(s) : s[i] # " "}
  IN  IF idx = {} THEN <<>>
      ELSE LET lo == CHOOSE i \in idx : \A j \in idx : i <= j
               hi == CHOOSE i \in idx : \A j \in idx : i >= j
           IN  SubSeq(s, lo, hi)

\* The text of every account name and name fragment of the model
Chars(n) ==
  CASE n = "SoFi Savings"   -> <<"S","o","F","i"," ","S","a","v","i","n","g","s">>
    [] n = "SoFi Checking"  -> <<"S","o","F","i"," ","C","h","e","c","k","i","n","g">>
    [] n = "Chase Savings"  -> <<"C","h","a","s","e"," ","S","a","v","i","n","g","s">>
    [] n = "Chase Checking" -> <<"C","h","a","s","e"," ","C","h","e","c","k","i","n","g">>
    [] n = "Chase Freedom"  -> <<"C","h","a","s","e"," ","F","r","e","e","d","o","m">>
    [] n = "Apple Card"     -> <<"A","p","p","l","e"," ","C","a","r","d">>
    [] n = "Discover it"    -> <<"D","i","s","c","o","v","e","r"," ","i","t">>
    [] n = "Amex Gold"      -> <<"A","m","e","x"," ","G","o","l","d">>
    [] n = "_Income"        -> <<"_","I","n","c","o","m","e">>
    [] n = "_Expenses"      -> <<"_","E","x","p","e","n","s","e","s">>
    [] n = "Friends Owe Me" -> <<"F","r","i","e","n","d","s"," ","O","w","e"," ","M","e">>
    [] n = "Apple"          -> <<"A","p","p","l","e">>
    [] n = "Wallet"         -> <<"W","a","l","l","e","t">>
    [] n = "apple"          -> <<"a","p","p","l","e">>
    [] n = "amex"           -> <<"a","m","e","x">>
    [] n = "credit card"    -> <<"c","r","e","d","i","t"," ","c","a","r","d">>
    [] n = "cash"           -> <<"c","a","s","h">>
    [] n = "sofi"           -> <<"s","o","f","i">>
    [] n = " Savings "      -> <<" ","S","a","v","i","n","g","s"," ">>
    [] n = "checking"       -> <<"c","h","e","c","k","i","n","g">>
    [] n = "discover"       -> <<"d","i","s","c","o","v","e","r">>
    [] n = "my card"        -> <<"m","y"," ","c","a","r","d">>
    [] n = "chase"          -> <<"c","h","a","s","e">>
    [] n = "freedom"        -> <<"f","r","e","e","d","o","m">>
    [] n = "credit"         -> <<"c","r","e","d","i","t">>
    [] n = "card"           -> <<"c","a","r","d">>
    [] n = "savings"        -> <<"s","a","v","i","n","g","s">>
    [] n = "SoFi"           -> <<"S","o","F","i">>
    [] n = "Chase"          -> <<"C","h","a","s","e">>
    [] n = "friends owe me" -> <<"f","r","i","e","n","d","s"," ","o","w","e"," ","m","e">>
    [] OTHER                -> <<>>

-----------------------------------------------------------------------------
(* Accounts and requests                                                   *)

\* accountId: null / absent
NoId == 0

\* idempotencyKey: absent
NoKey == [client |-> "", gen |-> 0]

ClientKey(k) == [client |-> k, gen |-> 0]

\* idempotencyKey(): `ik_${Date.now()}_${Math.random()...}`, a fresh key
GeneratedKey(n) == [client |-> "", gen |-> n]

Account(id, user, name, type, initial, active) ==
  [id |-> id, user |-> user, name |-> name, type |-> type,
   initial |-> initial, active |-> active]

\* bootstrap's requiredAccounts, in the order of the source
requiredAccounts ==
  << [name |-> "SoFi Savings",   type |-> "savings"],
     [name |-> "SoFi Checking",  type |-> "checking"],
     [name |-> "Chase Savings",  type |-> "savings"],
     [name |-> "Chase Checking", type |-> "checking"],
     [name |-> "Chase Freedom",  type |-> "credit_card"],
     [name |-> "Apple Card",     type |-> "credit_card"],
     [name |-> "Discover it",    type |-> "credit_card"],
     [name |-> "Amex Gold",      type |-> "credit_card"],
     [name |-> "_Income",        type |-> "income"],
     [name |-> "_Expenses",      type |-> "expense"],
     [name |-> "Friends Owe Me", type |-> "friends_owe"] >>

Range(f) == {f[i] : i \in DOMAIN f}

\* Array.prototype.find over the account rows: the id of the first row
\* among the matching ones, NoId when there is none
FindId(accs, matching) ==
  LET idx == {i \in 1..Len(accs) : accs[i] \in matching}
  IN  IF idx = {} THEN NoId
      ELSE accs[CHOOSE i \in idx : \A j \in idx : i <= j].id

\* const getFirst = (t) => accounts?.find((a) => a.account_type === t)?.id
getFirst(accs, t) == FindId(accs, {a \in Range(accs) : a.type = t})

LowerName(a) == ToLower(Chars(a.name))

\* exact match, then substring match either way, on active accounts
MatchExact(accs, frag) ==
  FindId(accs, {a \in Range(accs) : a.active /\ LowerName(a) = frag})

MatchPartial(accs, frag) ==
  FindId(accs, {a \in Range(accs) : a.active /\
                 (Includes(LowerName(a), frag) \/ Includes(frag, LowerName(a)))})

\* if (!matched && cond) matched = alt
OrElse(matched, cond, alt) == IF matched = NoId /\ cond THEN alt ELSE matched

\* accounts.find((a) => a.id === id && a.is_active !== false)
SelectedAccount(accs, id) == FindId(accs, {a \in Range(accs) : a.id = id /\ a.active})

\* paymentAccountId of the POST handler
paymentAccountId(accs, r) ==
  LET checkingAccountId == getFirst(accs, "checking")
      pmLower == ToLower(ToLower(Chars(r.paymentModeName)))
  IN  IF r.accountId # NoId
      THEN LET sel == SelectedAccount(accs, r.accountId)
           IN  IF sel # NoId THEN sel ELSE checkingAccountId
      ELSE IF r.paymentModeName # ""
      THEN LET m1 == MatchExact(accs, pmLower)
               m2 == OrElse(m1, TRUE, MatchPartial(accs, pmLower))
               m3 == OrElse(m2, Includes(pmLower, Chars("chase")) /\
                                Includes(pmLower, Chars("freedom")),
                            FindId(accs, {a \in Range(accs) : a.name = "Chase Freedom"}))
               m4 == OrElse(m3, Includes(pmLower, Chars("amex")),
                            FindId(accs, {a \in Range(accs) : a.name = "Amex Gold"}))
               m5 == OrElse(m4, Includes(pmLower, Chars("discover")),
                            FindId(accs, {a \in Range(accs) : a.name = "Discover it"}))
               m6 == OrElse(m5, Includes(pmLower, Chars("credit")),
                            FindId(accs, {a \in Range(accs) : a.type = "credit_card" /\ a.active}))
           IN  IF m6 # NoId THEN m6 ELSE checkingAccountId
      ELSE checkingAccountId

Entry(acc, type, amount) ==
  [account_id |-> acc, entry_type |-> type, amount_cents |-> amount]

Min(a, b) == IF a <= b THEN a ELSE b

\* friendShare without Math.min: the share is taken as requested
friendShare_unclamped(r) ==
  IF r.friendWillReimburse /\ r.friendShareCents # 0
  THEN r.friendShareCents ELSE 0

\* friendShareCents of the handler: the requested share, only with
\* friendWillReimburse, clamped to the amount
friendShare(r) ==
  IF r.friendWillReimburse /\ r.friendShareCents # 0
  THEN Min(r.friendShareCents, r.amountCents) ELSE 0

personalShare(r) == r.amountCents - friendShare(r)

Built(entriesBuilt) == [status |-> "ok", http |-> 200, entries |-> entriesBuilt]
BuildError(e, code) == [status |-> e, http |-> code, entries |-> <<>>]

\* expenseEntries crediting the payment account with the personal share only
expenseEntries_creditPersonal(accs, r) ==
  LET expenseAccountId == getFirst(accs, "expense")
      friendsAccountId == getFirst(accs, "friends_owe")
      e1 == IF personalShare(r) > 0
            THEN <<Entry(expenseAccountId, "debit", personalShare(r))>> ELSE <<>>
      e2 == IF friendShare(r) > 0 /\ friendsAccountId # NoId
            THEN e1 \o <<Entry(friendsAccountId, "debit", friendShare(r))>>
            ELSE IF friendShare(r) > 0 /\ friendsAccountId = NoId
            THEN e1 \o <<Entry(expenseAccountId, "debit", friendShare(r))>>
            ELSE e1
      e3 == IF Len(e2) = 0
            THEN <<Entry(expenseAccountId, "debit", r.amountCents)>> ELSE e2
  IN  Built(e3 \o <<Entry(paymentAccountId(accs, r), "credit", personalShare(r))>>)

\* expenseEntries without the fold-back of the share and without the
\* at-least-one-debit guard
expenseEntries_noFoldBack(accs, r) ==
  LET expenseAccountId == getFirst(accs, "expense")
      friendsAccountId == getFirst(accs, "friends_owe")
      e1 == IF personalShare(r) > 0
            THEN <<Entry(expenseAccountId, "debit", personalShare(r))>> ELSE <<>>
      e2 == IF friendShare(r) > 0 /\ friendsAccountId # NoId
            THEN e1 \o <<Entry(friendsAccountId, "debit", friendShare(r))>>
            ELSE e1
  IN  Built(e2 \o <<Entry(paymentAccountId(accs, r), "credit", r.amountCents)>>)

\* direction === "expense"
expenseEntries(accs, r) ==
  LET expenseAccountId == getFirst(accs, "expense")
      friendsAccountId == getFirst(accs, "friends_owe")
      e1 == IF personalShare(r) > 0
            THEN <<Entry(expenseAccountId, "debit", personalShare(r))>> ELSE <<>>
      e2 == IF friendShare(r) > 0 /\ friendsAccountId # NoId
            THEN e1 \o <<Entry(friendsAccountId, "debit", friendShare(r))>>
            ELSE IF friendShare(r) > 0 /\ friendsAccountId = NoId
            THEN e1 \o <<Entry(expenseAccountId, "debit", friendShare(r))>>
            ELSE e1
      e3 == IF Len(e2) = 0
            THEN <<Entry(expenseAccountId, "debit", r.amountCents)>> ELSE e2
  IN  Built(e3 \o <<Entry(paymentAccountId(accs, r), "credit", r.amountCents)>>)

\* direction === "income"
incomeEntries(accs, r) ==
  LET sel == SelectedAccount(accs, r.accountId)
      receivingAccountId ==
        IF r.accountId # NoId /\ sel # NoId THEN sel ELSE paymentAccountId(accs, r)
  IN  Built(<<Entry(receivingAccountId, "debit", r.amountCents),
              Entry(getFirst(accs, "income"), "credit", r.amountCents)>>)

\* isFriendRepayment
friendRepaymentEntries(accs, r) ==
  LET friendsAccountId == getFirst(accs, "friends_owe")
      checkingAccountId == getFirst(accs, "checking")
      pmLower == ToLower(ToLower(Chars(r.paymentModeName)))
      receivingAccountId ==
        IF r.accountId # NoId
        THEN LET sel == SelectedAccount(accs, r.accountId)
             IN  IF sel # NoId THEN sel ELSE checkingAccountId
        ELSE IF r.paymentModeName # ""
        THEN LET m == MatchPartial(accs, pmLower)
             IN  IF m # NoId THEN m ELSE checkingAccountId
        ELSE checkingAccountId
  IN  IF friendsAccountId = NoId THEN BuildError("missing_friends_account", 400)
      ELSE Built(<<Entry(receivingAccountId, "debit", r.amountCents),
                   Entry(friendsAccountId, "credit", r.amountCents)>>)

\* transfer: fromAccountId after the auto-detection by fromAccountName
transferFrom(accs, r) ==
  IF r.fromAccountId = NoId /\ r.fromAccountName # ""
  THEN LET fromName == Trim(ToLower(Chars(r.fromAccountName)))
           m1 == MatchExact(accs, fromName)
           m2 == OrElse(m1, TRUE, MatchPartial(accs, fromName))
           m3 == OrElse(m2, Includes(fromName, Chars("sofi")),
                   LET a == FindId(accs, {x \in Range(accs) : x.name = "SoFi Checking"})
                   IN  IF a # NoId THEN a
                       ELSE FindId(accs, {x \in Range(accs) : Includes(Chars(x.name), Chars("SoFi"))}))
           m4 == OrElse(m3, Includes(fromName, Chars("chase")),
                   LET a == FindId(accs, {x \in Range(accs) : x.name = "Chase Checking"})
                   IN  IF a # NoId THEN a
                       ELSE FindId(accs, {x \in Range(accs) : Includes(Chars(x.name), Chars("Chase"))
                                                     /\ x.type = "checking"}))
           m5 == OrElse(m4, Includes(fromName, Chars("checking")),
                   FindId(accs, {x \in Range(accs) : x.type = "checking" /\ x.active}))
           m6 == OrElse(m5, Includes(fromName, Chars("savings")),
                   FindId(accs, {x \in Range(accs) : x.type = "savings" /\ x.active}))
       IN  m6
  ELSE r.fromAccountId

\* transfer: toAccountId after the auto-detection by toAccountName and by
\* the "credit" keyword
transferTo(accs, r) ==
  LET toName == Trim(ToLower(Chars(r.toAccountName)))
      byName ==
        IF r.accountId = NoId /\ r.toAccountName # ""
        THEN LET m1 == MatchExact(accs, toName)
                 m2 == OrElse(m1, TRUE, MatchPartial(accs, toName))
                 m3 == OrElse(m2, Includes(toName, Chars("chase")) /\
                                  Includes(toName, Chars("freedom")),
                         FindId(accs, {x \in Range(accs) : x.name = "Chase Freedom"}))
                 m4 == OrElse(m3, Includes(toName, Chars("apple")),
                         FindId(accs, {x \in Range(accs) : x.name = "Apple Card"}))
                 m5 == OrElse(m4, Includes(toName, Chars("discover")),
                         FindId(accs, {x \in Range(accs) : x.name = "Discover it"}))
                 m6 == OrElse(m5, Includes(toName, Chars("amex")),
                         FindId(accs, {x \in Range(accs) : x.name = "Amex Gold"}))
                 m7 == OrElse(m6, Includes(toName, Chars("credit")) \/
                                  Includes(toName, Chars("card")),
                         FindId(accs, {x \in Range(accs) : x.type = "credit_card" /\ x.active}))
             IN  m7
        ELSE r.accountId
      creditHint ==
        (r.paymentModeName # "" /\
           Includes(ToLower(Chars(r.paymentModeName)), Chars("credit")))
        \/ (r.toAccountName # "" /\
           Includes(ToLower(Chars(r.toAccountName)), Chars("credit")))
  IN  OrElse(byName, creditHint,
        FindId(accs, {x \in Range(accs) : x.active /\
                 (Includes(LowerName(x), Chars("credit")) \/ x.type = "credit_card")}))

\* transferEntries without the fromAccountId === toAccountId check
transferEntries_sameAccount(accs, r) ==
  LET checkingAccountId == getFirst(accs, "checking")
      detected == transferFrom(accs, r)
      fromAccountId == IF detected = NoId /\ checkingAccountId # NoId
                       THEN checkingAccountId ELSE detected
      toAccountId == transferTo(accs, r)
  IN  IF toAccountId = NoId \/ fromAccountId = NoId
      THEN BuildError("transfer_requires_both_accounts", 400)
      ELSE IF SelectedAccount(accs, fromAccountId) = NoId
              \/ SelectedAccount(accs, toAccountId) = NoId
      THEN BuildError("invalid_account", 400)
      ELSE Built(<<Entry(toAccountId, "debit", r.amountCents),
                   Entry(fromAccountId, "credit", r.amountCents)>>)

\* direction === "transfer"
transferEntries(accs, r) ==
  LET checkingAccountId == getFirst(accs, "checking")
      detected == transferFrom(accs, r)
      fromAccountId == IF detected = NoId /\ checkingAccountId # NoId
                       THEN checkingAccountId ELSE detected
      toAccountId == transferTo(accs, r)
  IN  IF toAccountId = NoId \/ fromAccountId = NoId
      THEN BuildError("transfer_requires_both_accounts", 400)
      ELSE IF SelectedAccount(accs, fromAccountId) = NoId
              \/ SelectedAccount(accs, toAccountId) = NoId
      THEN BuildError("invalid_account", 400)
      ELSE IF fromAccountId = toAccountId
      THEN BuildError("transfer_same_account", 400)
      ELSE Built(<<Entry(toAccountId, "debit", r.amountCents),
                   Entry(fromAccountId, "credit", r.amountCents)>>)

\* The entry building of the POST handler, from the accounts it has read:
\* the branch order is expense, income, isFriendRepayment, transfer
buildEntries(accs, r) ==
  IF getFirst(accs, "income") = NoId \/ getFirst(accs, "expense") = NoId
     \/ getFirst(accs, "checking") = NoId
  THEN BuildError("missing_accounts", 500)
  ELSE IF r.direction = "expense" THEN expenseEntries(accs, r)
  ELSE IF r.direction = "income" THEN incomeEntries(accs, r)
  ELSE IF r.isFriendRepayment THEN friendRepaymentEntries(accs, r)
  ELSE IF r.direction = "transfer" THEN transferEntries(accs, r)
  ELSE BuildError("invalid_direction", 400)

-----------------------------------------------------------------------------
(* The store: the database functions and the balance trigger               *)

RECURSIVE SumAmounts(_)
SumAmounts(rows) ==
  IF rows = {} THEN 0
  ELSE LET r == CHOOSE x \in rows : TRUE
       IN  r.amount + SumAmounts(rows \ {r})

EntriesOf(rows, txId) == {e \in rows : e.tx = txId}

DebitSum(rows, txId) ==
  SumAmounts({e \in EntriesOf(rows, txId) : e.type = "debit"})

CreditSum(rows, txId) ==
  SumAmounts({e \in EntriesOf(rows, txId) : e.type = "credit"})

\* a balance trigger that never raises
ensure_transaction_balanced_off(rows, txId) == FALSE

\* ensure_transaction_balanced, run at the end of the database transaction
\* for every inserted row: TRUE when it raises
ensure_transaction_balanced(rows, txId) ==
  DebitSum(rows, txId) # CreditSum(rows, txId)

\* the FOR loop without the check that the account belongs to the caller
RECURSIVE entryLoop_anyOwner(_, _, _, _, _)
entryLoop_anyOwner(accs, user, txId, list, k) ==
  IF k = 0 THEN [error |-> "", rows |-> {}]
  ELSE LET prev == entryLoop_anyOwner(accs, user, txId, list, k - 1)
           e == list[k]
       IN  IF prev.error # "" THEN prev
           ELSE IF e.amount_cents <= 0
           THEN [error |-> "entry amount_cents must be > 0", rows |-> prev.rows]
           ELSE [error |-> "",
                 rows |-> prev.rows \cup
                   {[id |-> txId + k, tx |-> txId, account |-> e.account_id,
                     type |-> e.entry_type, amount |-> e.amount_cents]}]

\* The FOR loop of create_transaction_with_entries over p_entries[1..k]:
\* the rows inserted so far and the exception raised, if any
RECURSIVE entryLoop(_, _, _, _, _)
entryLoop(accs, user, txId, list, k) ==
  IF k = 0 THEN [error |-> "", rows |-> {}]
  ELSE LET prev == entryLoop(accs, user, txId, list, k - 1)
           e == list[k]
       IN  IF prev.error # "" THEN prev
           ELSE IF e.amount_cents <= 0
           THEN [error |-> "entry amount_cents must be > 0", rows |-> prev.rows]
           ELSE IF ~ \E a \in Range(accs) : a.id = e.account_id /\ a.user = user
           THEN [error |-> "account not found for user", rows |-> prev.rows]
           ELSE [error |-> "",
                 rows |-> prev.rows \cup
                   {[id |-> txId + k, tx |-> txId, account |-> e.account_id,
                     type |-> e.entry_type, amount |-> e.amount_cents]}]

\* a transactions table without the unique constraint
transactions_idempotency_unique_off(txs, user, key) == FALSE

\* constraint transactions_idempotency_unique unique (user_id, idempotency_key):
\* TRUE when the insert of the header violates it (NULL keys never collide)
transactions_idempotency_unique(txs, user, key) ==
  key # NoKey /\ \E t \in txs : t.user = user /\ t.key = key

\* The body of create_transaction_with_entries run by `user`: the header
\* and the rows written by the time it returns or raises, and the error
create_transaction_with_entries(accs, txs, user, amount, key, list, txId) ==
  LET header == [id |-> txId, user |-> user, amount |-> amount, key |-> key,
                 deleted |-> FALSE, description |-> "d0"]
      loop == entryLoop(accs, user, txId, list, Len(list))
  IN  IF amount <= 0
      THEN [error |-> "amount_cents must be > 0", header |-> {}, rows |-> {}]
      ELSE IF transactions_idempotency_unique(txs, user, key)
      THEN [error |-> "transactions_idempotency_unique", header |-> {}, rows |-> {}]
      ELSE IF loop.error # ""
      THEN [error |-> loop.error, header |-> {header}, rows |-> loop.rows]
      ELSE IF loop.rows # {} /\ ensure_transaction_balanced(loop.rows, txId)
      THEN [error |-> "unbalanced", header |-> {header}, rows |-> loop.rows]
      ELSE [error |-> "", header |-> {header}, rows |-> loop.rows]

\* a function whose writes stay when it raises
persisted_noRollback(run) == [txs |-> run.header, rows |-> run.rows]

\* The function runs in one database transaction: what it wrote is
\* persisted when it returns and rolled back when it raises
persisted(run) ==
  IF run.error = "" THEN [txs |-> run.header, rows |-> run.rows]
  ELSE [txs |-> {}, rows |-> {}]

\* the hard delete: DELETE FROM transactions, the entries cascading
delete_transaction_hard(txs, rows, user, id) ==
  [txs  |-> {t \in txs : ~(t.id = id /\ t.user = user)},
   rows |-> {e \in rows : ~(e.tx = id /\ \E t \in txs : t.id = id /\ t.user = user)}]

\* delete_transaction: UPDATE transactions SET deleted_at = NOW()
delete_transaction(txs, rows, user, id) ==
  [txs  |-> {IF t.id = id /\ t.user = user THEN [t EXCEPT !.deleted = TRUE] ELSE t
               : t \in txs},
   rows |-> rows]

\* restore_transaction: UPDATE transactions SET deleted_at = NULL
restore_transaction(txs, rows, user, id) ==
  [txs  |-> {IF t.id = id /\ t.user = user THEN [t EXCEPT !.deleted = FALSE] ELSE t
               : t \in txs},
   rows |-> rows]

\* PATCH: .update(cleanUpdates).eq("id", id).eq("user_id", user.id)
update_transaction(txs, rows, user, id, description) ==
  [txs  |-> {IF t.id = id /\ t.user = user
             THEN [t EXCEPT !.description = description] ELSE t : t \in txs},
   rows |-> rows]

\* The for loop of the balances route over the entries of one account
RECURSIVE foldBalance(_, _)
foldBalance(balance, accEntries) ==
  IF accEntries = {} THEN balance
  ELSE LET e == CHOOSE x \in accEntries : TRUE
       IN  foldBalance(IF e.type = "debit" THEN balance + e.amount
                       ELSE balance - e.amount, accEntries \ {e})

\* the balances route without .is("deleted_at", null)
accountBalances_withDeleted(accs, txs, rows, user) ==
  LET mine == {a \in Range(accs) : a.user = user}
      accountIds == {a.id : a \in mine}
      transactionIds == {t.id : t \in {x \in txs : x.user = user}}
      fetched == {e \in rows : e.tx \in transactionIds /\ e.account \in accountIds}
  IN  [id \in accountIds |->
         LET acc == CHOOSE a \in mine : a.id = id
         IN  foldBalance(acc.initial, {e \in fetched : e.account = id})]

\* GET /api/accounts/balances for `user`: account id -> balance
accountBalances(accs, txs, rows, user) ==
  LET mine == {a \in Range(accs) : a.user = user}
      accountIds == {a.id : a \in mine}
      transactionIds == {t.id : t \in {x \in txs : x.user = user /\ ~x.deleted}}
      fetched == {e \in rows : e.tx \in transactionIds /\ e.account \in accountIds}
  IN  [id \in accountIds |->
         LET acc == CHOOSE a \in mine : a.id = id
         IN  foldBalance(acc.initial, {e \in fetched : e.account = id})]

\* calculateAccountBalances(userId): the active accounts only
calculateAccountBalances(accs, txs, rows, user) ==
  LET active == {a \in Range(accs) : a.user = user /\ a.active}
      txIds == {t.id : t \in {x \in txs : x.user = user /\ ~x.deleted}}
      fetched == IF txIds = {} THEN {} ELSE {e \in rows : e.tx \in txIds}
  IN  [id \in {a.id : a \in active} |->
         LET acc == CHOOSE a \in active : a.id = id
         IN  foldBalance(acc.initial, {e \in fetched : e.account = id})]

-----------------------------------------------------------------------------
(* Bounds and inputs of the model                                          *)

\* concurrent requests
NumProcs == 2

\* amounts and friend shares of the entry-builder inputs run over 0..MaxAmount+1
MaxAmount == 3

MAX_TRANSACTION_AMOUNT == 10000000

Procs == 1..NumProcs

\* the signed-in user of the routes, and the owner of a foreign account
User == "u1"
Other == "u2"

\* ids of the seeded rows: the required accounts in their order, then the
\* other user's account; Unknown is the id of no account
IdOf(name) ==
  CHOOSE i \in 1..Len(requiredAccounts) : requiredAccounts[i].name = name
SofiChecking == IdOf("SoFi Checking")
AppleCard == IdOf("Apple Card")
IncomeSink == IdOf("_Income")
ExpenseSink == IdOf("_Expenses")
FriendsOweMe == IdOf("Friends Owe Me")
Foreign == Len(requiredAccounts) + 1
Unknown == 9 * Len(requiredAccounts)

\* A bootstrapped user whose card owes 500.00, and another user's account
SeededAccounts ==
  [i \in 1..Len(requiredAccounts) |->
     Account(i, User, requiredAccounts[i].name, requiredAccounts[i].type,
             IF i = AppleCard THEN -50000 ELSE 0, TRUE)]
  \o <<Account(Foreign, Other, "Wallet", "checking", 0, TRUE)>>

Without(accs, ids) == SelectSeq(accs, LAMBDA a : a.id \notin ids)

Deactivate(accs, ids) ==
  [i \in 1..Len(accs) |->
     IF accs[i].id \in ids THEN [accs[i] EXCEPT !.active = FALSE] ELSE accs[i]]

FirstFreeId == Foreign + 1

BaseRequest ==
  [via |-> "route", user |-> User, direction |-> "expense", amountCents |-> 2000,
   accountId |-> NoId, paymentModeName |-> "", fromAccountId |-> NoId,
   fromAccountName |-> "", toAccountName |-> "", friendShareCents |-> 0,
   friendWillReimburse |-> FALSE, isFriendRepayment |-> FALSE,
   isRefund |-> FALSE, idempotencyKey |-> ""]

\* The requests of the concurrent model
RouteRequests ==
  { [BaseRequest EXCEPT !.paymentModeName = "apple", !.idempotencyKey = "k1"],
    [BaseRequest EXCEPT !.amountCents = 10000, !.friendShareCents = 10000,
                        !.friendWillReimburse = TRUE, !.idempotencyKey = "k1"],
    [BaseRequest EXCEPT !.direction = "transfer", !.amountCents = 10000,
                        !.accountId = AppleCard],
    [BaseRequest EXCEPT !.direction = "income", !.idempotencyKey = "k2"],
    [BaseRequest EXCEPT !.direction = "transfer", !.isFriendRepayment = TRUE],
    [BaseRequest EXCEPT !.direction = "transfer", !.accountId = SofiChecking],
    [BaseRequest EXCEPT !.amountCents = 0] }

RpcCall(user, amount, key) ==
  [BaseRequest EXCEPT !.via = "rpc", !.user = user, !.direction = "rpc",
                      !.amountCents = amount, !.idempotencyKey = key]

\* Direct calls of the database function: the submitted entries by call
RpcCalls ==
  { <<RpcCall(User, 2000, ""),
      <<Entry(SofiChecking, "debit", 2000), Entry(AppleCard, "credit", 2000)>>>>,
    <<RpcCall(User, 2000, "k1"),
      <<Entry(AppleCard, "debit", 2000), Entry(SofiChecking, "credit", 2000)>>>>,
    <<RpcCall(User, 10000, ""),
      <<Entry(SofiChecking, "debit", 2000), Entry(AppleCard, "credit", 10000)>>>>,
    <<RpcCall(User, 2000, ""),
      <<Entry(SofiChecking, "debit", 2000), Entry(Foreign, "credit", 2000)>>>>,
    <<RpcCall(User, 2000, ""),
      <<Entry(SofiChecking, "debit", 2000), Entry(AppleCard, "credit", 0)>>>>,
    <<RpcCall(User, 0, ""),
      <<Entry(SofiChecking, "debit", 2000), Entry(AppleCard, "credit", 2000)>>>>,
    <<RpcCall(User, 2000, ""), <<Entry(SofiChecking, "debit", 2000)>>>>,
    <<RpcCall(User, 2000, ""), <<>>>>,
    <<RpcCall(Other, 2000, "k1"),
      <<Entry(Foreign, "debit", 2000), Entry(Foreign, "credit", 2000)>>>> }

Descriptions == {"d0", "d1"}

NoResp == [http |-> 0, ok |-> FALSE, transactionId |-> NoId, cached |-> FALSE,
           error |-> ""]

\* no GET response yet
NoView == [route |-> "", user |-> "", direction |-> <<>>, totalIncome |-> 0,
           totalExpenses |-> 0, accountSummaries |-> <<>>, friendsOweMe |-> 0]

\* an empty localStorage queue, no draft confirmed, no sync running
NoClient ==
  [queue |-> <<>>, confirmed |-> {}, fetches |-> 0, loop |-> "",
   pending |-> <<>>, i |-> 0, synced |-> 0, failed |-> 0, log |-> <<>>]

\* an empty rateLimitStore at time 0, no call answered
NoLimiter ==
  [store |-> <<>>, now |-> 0, last |-> [endpoint |-> ""], win |-> <<>>,
   ideal |-> <<>>]

OkResp(id, cached) ==
  [http |-> 200, ok |-> TRUE, transactionId |-> id, cached |-> cached, error |-> ""]

ErrResp(code, e) ==
  [http |-> code, ok |-> FALSE, transactionId |-> NoId, cached |-> FALSE, error |-> e]

-----------------------------------------------------------------------------
(* The POST /api/transactions/create handler, one action per await         *)

\* z.number().int().positive().max(MAX_TRANSACTION_AMOUNT), nonnegative share
schemaOk(r) ==
  /\ r.amountCents > 0 /\ r.amountCents <= MAX_TRANSACTION_AMOUNT
  /\ r.friendShareCents >= 0
  /\ r.direction \in {"expense", "income", "transfer"}

\* a lookup that finds nothing
idempotencyLookup_off(txs, user, clientKey) == NoId

\* .from("transactions").eq("user_id", user.id).eq("idempotency_key", clientKey)
\* .maybeSingle(): the id of the existing transaction, NoId when none
idempotencyLookup(txs, user, clientKey) ==
  LET found == {t \in txs : t.user = user /\ t.key = ClientKey(clientKey)}
  IN  IF found = {} THEN NoId ELSE (CHOOSE t \in found : TRUE).id

UserAccounts(accs, user) == SelectSeq(accs, LAMBDA a : a.user = user)

\* bootstrap: requiredAccounts.filter(!existingTypes.has && !existingNames.has)
missingAccounts(accs) ==
  LET existingTypes == {a.type : a \in Range(accs)}
      existingNames == {a.name : a \in Range(accs)}
  IN  SelectSeq(requiredAccounts,
                LAMBDA a : a.type \notin existingTypes /\ a.name \notin existingNames)

\* parse, auth, then the idempotency lookup
Lookup(p, r) ==
  /\ pc[p] = "idle"
  /\ req' = [req EXCEPT ![p] = r]
  /\ seenDone' = [seenDone EXCEPT ![p] = {q \in Procs : pc[q] = "done"}]
  /\ LET existing == idempotencyLookup(transactions, r.user, r.idempotencyKey)
     IN  IF ~schemaOk(r)
         THEN /\ resp' = [resp EXCEPT ![p] = ErrResp(400, "invalid_body")]
              /\ pc' = [pc EXCEPT ![p] = "done"]
         ELSE IF r.idempotencyKey # "" /\ existing # NoId
         THEN /\ resp' = [resp EXCEPT ![p] = OkResp(existing, TRUE)]
              /\ pc' = [pc EXCEPT ![p] = "done"]
         ELSE /\ resp' = resp
              /\ pc' = [pc EXCEPT ![p] = "boot"]
  /\ UNCHANGED <<view, client, limiter, accounts, transactions, entries, nextId, missing, built>>

\* fetch("/api/bootstrap") threw or was refused: the handler goes on
BootstrapFails(p) ==
  /\ pc[p] = "boot"
  /\ pc' = [pc EXCEPT ![p] = "build"]
  /\ UNCHANGED <<view, client, limiter, accounts, transactions, entries, nextId, req, missing, built,
                 resp, seenDone>>

\* bootstrap reads the user's accounts and computes missingAccounts
BootstrapRead(p) ==
  /\ pc[p] = "boot"
  /\ LET m == missingAccounts(UserAccounts(accounts, req[p].user))
     IN  /\ missing' = [missing EXCEPT ![p] = m]
         /\ pc' = [pc EXCEPT ![p] = IF Len(m) > 0 THEN "bootins" ELSE "build"]
  /\ UNCHANGED <<view, client, limiter, accounts, transactions, entries, nextId, req, built, resp,
                 seenDone>>

\* bootstrap inserts the missing accounts
BootstrapInsert(p) ==
  /\ pc[p] = "bootins"
  /\ accounts' = accounts \o
       [i \in 1..Len(missing[p]) |->
          Account(nextId + i - 1, req[p].user, missing[p][i].name,
                  missing[p][i].type, 0, TRUE)]
  /\ nextId' = nextId + Len(missing[p])
  /\ missing' = [missing EXCEPT ![p] = <<>>]
  /\ pc' = [pc EXCEPT ![p] = "build"]
  /\ UNCHANGED <<view, client, limiter, transactions, entries, req, built, resp, seenDone>>

\* the accounts query, account resolution and entry building
Build(p) ==
  /\ pc[p] = "build"
  /\ LET b == buildEntries(UserAccounts(accounts, req[p].user), req[p])
     IN  IF b.status = "ok"
         THEN /\ built' = [built EXCEPT ![p] = b.entries]
              /\ pc' = [pc EXCEPT ![p] = "rpc"]
              /\ resp' = resp
         ELSE /\ resp' = [resp EXCEPT ![p] = ErrResp(b.http, b.status)]
              /\ pc' = [pc EXCEPT ![p] = "done"]
              /\ built' = built
  /\ UNCHANGED <<view, client, limiter, accounts, transactions, entries, nextId, req, missing, seenDone>>

\* a client calls create_transaction_with_entries itself
DirectRpc(p, c) ==
  /\ pc[p] = "idle"
  /\ req' = [req EXCEPT ![p] = c[1]]
  /\ built' = [built EXCEPT ![p] = c[2]]
  /\ seenDone' = [seenDone EXCEPT ![p] = {q \in Procs : pc[q] = "done"}]
  /\ pc' = [pc EXCEPT ![p] = "rpc"]
  /\ UNCHANGED <<view, client, limiter, accounts, transactions, entries, nextId, missing, resp>>

\* const finalIdempotencyKey = clientKey || idempotencyKey()
finalIdempotencyKey(r, fresh) ==
  IF r.idempotencyKey # "" THEN ClientKey(r.idempotencyKey)
  ELSE IF r.via = "route" THEN GeneratedKey(fresh) ELSE NoKey

\* if (rpcError) return 500 sanitizeRPCError(...); else { ok, transactionId }
rpcResponse(run) ==
  IF run.error # "" THEN ErrResp(500, "operation_failed")
  ELSE OkResp((CHOOSE h \in run.header : TRUE).id, FALSE)

\* supabase.rpc("create_transaction_with_entries", ...) and the response
Rpc(p) ==
  /\ pc[p] = "rpc"
  /\ LET r == req[p]
         run == create_transaction_with_entries(
                  accounts, transactions, r.user, r.amountCents,
                  finalIdempotencyKey(r, nextId), built[p], nextId)
         kept == persisted(run)
     IN  /\ transactions' = transactions \cup kept.txs
         /\ entries' = entries \cup kept.rows
         /\ nextId' = IF run.error = "" THEN nextId + 1 + Len(built[p]) ELSE nextId
         /\ resp' = [resp EXCEPT ![p] = rpcResponse(run)]
  /\ pc' = [pc EXCEPT ![p] = "done"]
  /\ UNCHANGED <<view, client, limiter, accounts, req, missing, built, seenDone>>

\* POST delete: rpc("delete_transaction")
DeleteTransaction(u, id) ==
  /\ LET s == delete_transaction(transactions, entries, u, id)
     IN  transactions' = s.txs /\ entries' = s.rows
  /\ UNCHANGED <<view, client, limiter, accounts, nextId, pc, req, missing, built, resp, seenDone>>

\* POST restore: rpc("restore_transaction")
RestoreTransaction(u, id) ==
  /\ LET s == restore_transaction(transactions, entries, u, id)
     IN  transactions' = s.txs /\ entries' = s.rows
  /\ UNCHANGED <<view, client, limiter, accounts, nextId, pc, req, missing, built, resp, seenDone>>

\* PATCH: the header update of an existing transaction of the user
PatchTransaction(u, id, d) ==
  /\ \E t \in transactions : t.id = id /\ t.user = u
  /\ LET s == update_transaction(transactions, entries, u, id, d)
     IN  transactions' = s.txs /\ entries' = s.rows
  /\ UNCHANGED <<view, client, limiter, accounts, nextId, pc, req, missing, built, resp, seenDone>>

TxIds == {t.id : t \in transactions}

Init ==
  /\ accounts \in {SeededAccounts, Without(SeededAccounts, {FriendsOweMe})}
  /\ transactions = {}
  /\ entries = {}
  /\ nextId = FirstFreeId
  /\ pc = [p \in Procs |-> "idle"]
  /\ req = [p \in Procs |-> BaseRequest]
  /\ missing = [p \in Procs |-> <<>>]
  /\ built = [p \in Procs |-> <<>>]
  /\ resp = [p \in Procs |-> NoResp]
  /\ seenDone = [p \in Procs |-> {}]
  /\ view = NoView
  /\ client = NoClient
  /\ limiter = NoLimiter

Next ==
  \/ \E p \in Procs, r \in RouteRequests : Lookup(p, r)
  \/ \E p \in Procs : BootstrapFails(p)
  \/ \E p \in Procs : BootstrapRead(p)
  \/ \E p \in Procs : BootstrapInsert(p)
  \/ \E p \in Procs : Build(p)
  \/ \E p \in Procs, c \in RpcCalls : DirectRpc(p, c)
  \/ \E p \in Procs : Rpc(p)
  \/ \E u \in {User, Other}, id \in TxIds : DeleteTransaction(u, id)
  \/ \E u \in {User, Other}, id \in TxIds : RestoreTransaction(u, id)
  \/ \E u \in {User, Other}, id \in TxIds, d \in Descriptions : PatchTransaction(u, id, d)

Spec == Init /\ [][Next]_vars

-----------------------------------------------------------------------------
(* The entry builder over its input space: one request against one         *)
(* account list, built and committed                                       *)

BuildAmounts == (1..MaxAmount) \cup {500, 1000}
BuildShares == (0..(MaxAmount + 1)) \cup {500, 1500}

ExpenseRequests ==
  { [BaseRequest EXCEPT !.amountCents = a, !.friendShareCents = f,
                        !.friendWillReimburse = w, !.isFriendRepayment = rep,
                        !.accountId = id, !.paymentModeName = pm]
      : a \in BuildAmounts, f \in BuildShares, w \in BOOLEAN, rep \in BOOLEAN,
        id \in {NoId, AppleCard, ExpenseSink, Foreign},
        pm \in {"", "apple", "credit card"} }

IncomeRequests ==
  { [BaseRequest EXCEPT !.direction = "income", !.amountCents = a,
                        !.isFriendRepayment = rep, !.accountId = id,
                        !.paymentModeName = pm]
      : a \in BuildAmounts, rep \in BOOLEAN,
        id \in {NoId, AppleCard, IncomeSink, Foreign},
        pm \in {"", "apple", "cash"} }

TransferRequests ==
  { [BaseRequest EXCEPT !.direction = "transfer", !.amountCents = a,
                        !.isFriendRepayment = rep, !.accountId = id,
                        !.fromAccountId = from, !.fromAccountName = fn,
                        !.toAccountName = tn, !.paymentModeName = pm]
      : a \in {1, 500}, rep \in BOOLEAN,
        id \in {NoId, AppleCard, SofiChecking, Unknown},
        from \in {NoId, SofiChecking, AppleCard},
        fn \in {"", "sofi", " Savings "}, tn \in {"", "my card", "amex", "sofi"},
        pm \in {"", "credit card"} }

BuildRequests == ExpenseRequests \cup IncomeRequests \cup TransferRequests

\* Account lists the handler may read: bootstrapped; the friends account
\* deleted; a card deactivated
BuildAccounts ==
  { SeededAccounts,
    Without(SeededAccounts, {FriendsOweMe}),
    Deactivate(SeededAccounts, {AppleCard}) }

InitBuild ==
  /\ accounts \in BuildAccounts
  /\ transactions = {}
  /\ entries = {}
  /\ nextId = FirstFreeId
  /\ pc = [p \in Procs |-> IF p = 1 THEN "build" ELSE "done"]
  /\ \E r \in BuildRequests : req = [p \in Procs |-> r]
  /\ missing = [p \in Procs |-> <<>>]
  /\ built = [p \in Procs |-> <<>>]
  /\ resp = [p \in Procs |-> NoResp]
  /\ seenDone = [p \in Procs |-> {}]
  /\ view = NoView
  /\ client = NoClient
  /\ limiter = NoLimiter

NextBuild ==
  \/ \E p \in Procs : Build(p)
  \/ \E p \in Procs : Rpc(p)

SpecBuild == InitBuild /\ [][NextBuild]_vars

-----------------------------------------------------------------------------
(* Properties                                                              *)

Indices(list, P(_)) == {i \in 1..Len(list) : P(list[i])}

RECURSIVE SumAt(_, _)
SumAt(list, idx) ==
  IF idx = {} THEN 0
  ELSE LET i == CHOOSE x \in idx : TRUE
       IN  list[i].amount_cents + SumAt(list, idx \ {i})

Debits(list) == Indices(list, LAMBDA e : e.entry_type = "debit")
Credits(list) == Indices(list, LAMBDA e : e.entry_type = "credit")
DebitsTo(list, acc) ==
  Indices(list, LAMBDA e : e.entry_type = "debit" /\ e.account_id = acc)

\* a request of the route that has built its entries and is about to commit
AtCommit(p) == pc[p] = "rpc" /\ req[p].via = "route"

\* the rows the database function writes for a committed entry list
RowsOf(list, txId) ==
  {[id |-> txId + k, tx |-> txId, account |-> list[k].account_id,
    type |-> list[k].entry_type, amount |-> list[k].amount_cents]
     : k \in 1..Len(list)}

\* the call that committed a transaction
Committed(p, txId) ==
  resp[p].ok /\ ~resp[p].cached /\ resp[p].transactionId = txId

WithToken(user, k) ==
  {t \in transactions : t.user = user /\ t.key = ClientKey(k)}

Balances(u) == accountBalances(accounts, transactions, entries, u)

\* C1: in every state, after creates, soft deletes, restores, header edits
\* and concurrent commits, the debit entries of every persisted transaction
\* sum to the same amount as its credit entries.
C1_TransactionsBalanced ==
  \A t \in transactions :
    DebitSum(entries, t.id) = CreditSum(entries, t.id)

\* a deleted and edited transaction with entries, next to a refused
\* unbalanced commit
C1_Witness ==
  /\ \E t \in transactions :
       t.deleted /\ t.description = "d1" /\ DebitSum(entries, t.id) > 0
  /\ \E p \in Procs :
       /\ pc[p] = "done" /\ ~resp[p].ok /\ Len(built[p]) = 2
       /\ SumAt(built[p], Debits(built[p])) # SumAt(built[p], Credits(built[p]))

\* q is called with the token of p after p has returned success
SecondCall(p, q) ==
  /\ p # q /\ p \in seenDone[q] /\ pc[q] # "idle"
  /\ req[p].via = "route" /\ req[q].via = "route"
  /\ req[p].user = req[q].user
  /\ req[p].idempotencyKey # "" /\ req[q].idempotencyKey = req[p].idempotencyKey
  /\ resp[p].ok /\ schemaOk(req[q])

C2_SecondCallAnswer ==
  \A p, q \in Procs :
    SecondCall(p, q) =>
      /\ pc[q] = "done"
      /\ resp[q] = OkResp(resp[p].transactionId, TRUE)
      /\ Cardinality(WithToken(req[p].user, req[p].idempotencyKey)) = 1
      /\ \A t \in WithToken(req[p].user, req[p].idempotencyKey) :
           /\ t.id = resp[p].transactionId
           /\ ~resp[p].cached => EntriesOf(entries, t.id) = RowsOf(built[p], t.id)

C2_SecondCallStep ==
  \A q \in Procs :
    (pc[q] = "idle" /\ pc'[q] = "done" /\ resp'[q].cached) =>
      /\ transactions' = transactions /\ entries' = entries
      /\ \A u \in {User, Other} :
           accountBalances(accounts', transactions', entries', u) = Balances(u)

Refused(p) ==
  LET list == built[p]
  IN  \/ req[p].amountCents <= 0
      \/ \E i \in 1..Len(list) : list[i].amount_cents <= 0
      \/ \E i \in 1..Len(list) :
           ~ \E a \in Range(accounts) :
               a.id = list[i].account_id /\ a.user = req[p].user
      \/ SumAt(list, Debits(list)) # SumAt(list, Credits(list))

Duplicate(p) ==
  req[p].idempotencyKey # ""
    /\ WithToken(req[p].user, req[p].idempotencyKey) # {}

C3_CommitStep ==
  \A p \in Procs :
    (pc[p] = "rpc" /\ pc'[p] = "done") =>
      IF Refused(p) \/ Duplicate(p)
      THEN /\ ~resp'[p].ok
           /\ transactions' = transactions /\ entries' = entries
      ELSE /\ resp'[p].ok
           /\ \E t \in transactions' \ transactions :
                /\ transactions' = transactions \cup {t}
                /\ t.id = resp'[p].transactionId
                /\ t.user = req[p].user /\ t.amount = req[p].amountCents
                /\ entries' \ entries = RowsOf(built[p], t.id)
                /\ entries \subseteq entries'
                /\ Cardinality(RowsOf(built[p], t.id)) = Len(built[p])

C3_NoPartialRead ==
  \A t \in transactions :
    \E p \in Procs :
      Committed(p, t.id) /\ EntriesOf(entries, t.id) = RowsOf(built[p], t.id)

\* C3: a commit whose amount is <= 0, or that has an entry with an amount
\* <= 0 or an account the caller does not own, or whose debits and credits
\* differ, persists nothing, also when earlier entries of the call were
\* already inserted; any other commit persists the header and every entry;
\* no state holds a header with part of its entries.
C3_AllOrNothing == [] C3_NoPartialRead /\ [][C3_CommitStep]_vars

\* a call refused at its second entry, after the first was inserted, next
\* to a committed one
C3_Witness ==
  /\ \E p \in Procs :
       /\ pc[p] = "done" /\ ~resp[p].ok /\ Len(built[p]) = 2
       /\ req[p].user = User /\ built[p][2].account_id = Foreign
       /\ built[p][1].amount_cents > 0
  /\ \E p \in Procs, t \in transactions :
       Committed(p, t.id) /\ Cardinality(EntriesOf(entries, t.id)) = 2

\* neither call had returned when the other began
Concurrent(p, q) ==
  /\ p # q /\ p \notin seenDone[q] /\ q \notin seenDone[p]
  /\ pc[p] # "idle" /\ pc[q] # "idle"

\* C4: at most one transaction exists per (user, token), also when two
\* calls with the same token run concurrently, and a call that did not
\* commit left no transaction and no entry behind.
C4_OnePerToken ==
  /\ \A t1, t2 \in transactions :
       (t1.user = t2.user /\ t1.key = t2.key /\ t1.key # NoKey) => t1 = t2
  /\ \A t \in transactions : \E p \in Procs : Committed(p, t.id)
  /\ \A e \in entries :
       \E p \in Procs : Committed(p, e.tx) /\ e \in RowsOf(built[p], e.tx)

\* two concurrent calls of the route with one token, both at the commit
\* step: one committed, one refused
C4_Witness ==
  \E p, q \in Procs :
    /\ Concurrent(p, q)
    /\ req[p].via = "route" /\ req[q].via = "route"
    /\ req[p].idempotencyKey = "k1" /\ req[q].idempotencyKey = "k1"
    /\ pc[p] = "done" /\ pc[q] = "done"
    /\ resp[p].ok /\ ~resp[p].cached
    /\ built[q] # <<>> /\ ~resp[q].ok
    /\ Cardinality(WithToken(User, "k1")) = 1

\* C5: a call of the route that reached the commit step with a token for
\* which a transaction exists when it returns is answered with success and
\* the id of that transaction, never with an error.
C5_LoserAlreadyCreated ==
  \A q \in Procs :
    (pc[q] = "done" /\ req[q].via = "route" /\ req[q].idempotencyKey # ""
       /\ built[q] # <<>>) =>
      \A t \in WithToken(req[q].user, req[q].idempotencyKey) :
        resp[q].ok /\ resp[q].transactionId = t.id

\* two concurrent calls of the route with one token: the one that commits
\* second is answered 500 operation_failed while the transaction exists
C5_Witness ==
  \E p, q \in Procs :
    /\ Concurrent(p, q)
    /\ req[p].via = "route" /\ req[q].via = "route"
    /\ req[q].idempotencyKey # "" /\ req[p].idempotencyKey = req[q].idempotencyKey
    /\ Committed(p, resp[p].transactionId)
    /\ pc[q] = "done" /\ built[q] # <<>>
    /\ resp[q] = ErrResp(500, "operation_failed")
    /\ \E t \in WithToken(req[q].user, req[q].idempotencyKey) :
         t.id = resp[p].transactionId

\* initial + debits - credits over the entries of the user's transactions
\* that are not deleted
LedgerBalance(a) ==
  LET live == {t.id : t \in {x \in transactions : x.user = a.user /\ ~x.deleted}}
      mine == {e \in entries : e.account = a.id /\ e.tx \in live}
  IN  a.initial + SumAmounts({e \in mine : e.type = "debit"})
                - SumAmounts({e \in mine : e.type = "credit"})

\* C6: the balance reported for every account, of whatever kind, is its
\* starting balance plus its debit entries minus its credit entries over the
\* transactions that are not deleted.
C6_BalanceFormula ==
  \A a \in Range(accounts) :
    /\ Balances(a.user)[a.id] = LedgerBalance(a)
    /\ a.active =>
         calculateAccountBalances(accounts, transactions, entries, a.user)[a.id]
           = LedgerBalance(a)

\* the card that starts at -50000, debited 10000 and credited 2000
C6_Witness ==
  /\ Balances(User)[AppleCard] = -42000
  /\ \E e \in entries : e.account = AppleCard /\ e.type = "debit" /\ e.amount = 10000
  /\ \E e \in entries : e.account = AppleCard /\ e.type = "credit" /\ e.amount = 2000
  /\ \A t \in transactions : ~t.deleted

C7_ToggleStep ==
  \A u \in {User, Other}, id \in TxIds :
    LET others == {t \in transactions : ~(t.id = id /\ t.user = u)}
        absentT == {t \in transactions : t.id # id}
        absentE == {e \in entries : e.tx # id}
    IN  /\ (DeleteTransaction(u, id) \/ RestoreTransaction(u, id)) =>
             /\ entries' = entries
             /\ others \subseteq transactions'
             /\ {[t EXCEPT !.deleted = FALSE] : t \in transactions'}
                  = {[t EXCEPT !.deleted = FALSE] : t \in transactions}
        /\ (DeleteTransaction(u, id) /\ transactions \ others # {}) =>
             /\ \A t \in transactions' : t.id = id => t.deleted
             /\ \A v \in {User, Other} :
                  accountBalances(accounts', transactions', entries', v)
                    = accountBalances(accounts, absentT, absentE, v)
        /\ (RestoreTransaction(u, id) /\ transactions \ others # {}) =>
             /\ \A t \in transactions' : t.id = id => ~t.deleted
             /\ \A v \in {User, Other} :
                  accountBalances(accounts', transactions', entries', v)
                    = accountBalances(accounts, others \cup
                        {[t EXCEPT !.deleted = FALSE] : t \in transactions \ others},
                        entries, v)

C7_DeleteThenRestore ==
  \A t \in transactions :
    ~t.deleted =>
      LET d == delete_transaction(transactions, entries, t.user, t.id)
          r == restore_transaction(d.txs, d.rows, t.user, t.id)
      IN  /\ r.rows = entries /\ r.txs = transactions
          /\ \A v \in {User, Other} :
               accountBalances(accounts, r.txs, r.rows, v) = Balances(v)

\* C7: a delete or a restore changes only the deletion mark of the
\* transaction: no entry and no other header field changes; after a delete
\* every balance is what it would be without the transaction, and a delete
\* followed by a restore gives back the transactions, entries and balances.
C7_SoftDelete == [] C7_DeleteThenRestore /\ [][C7_ToggleStep]_vars

\* a deleted transaction whose entries on the card are kept and not counted
C7_Witness ==
  \E t \in transactions :
    /\ t.deleted
    /\ \E e \in EntriesOf(entries, t.id) : e.account = AppleCard
    /\ Balances(User)[AppleCard] = -50000
    /\ LedgerBalance(CHOOSE a \in Range(accounts) : a.id = AppleCard) = -50000

\* C8: every request of the route that reaches the commit step submits a
\* non-empty entry list, every amount > 0, whose debit sum and credit sum
\* both equal the total amount of the header.
C8_BuiltEntriesBalanced ==
  \A p \in Procs :
    AtCommit(p) =>
      /\ Len(built[p]) > 0
      /\ \A i \in 1..Len(built[p]) : built[p][i].amount_cents > 0
      /\ SumAt(built[p], Debits(built[p])) = req[p].amountCents
      /\ SumAt(built[p], Credits(built[p])) = req[p].amountCents

C8_Witness ==
  \E p \in Procs :
    /\ AtCommit(p)
    /\ req[p].direction = "expense"
    /\ Len(built[p]) = 3
    /\ req[p].amountCents = 3 /\ built[p][2].amount_cents = 2

\* the share an expense request asks for: friendShareCents, which counts
\* only when the request sets friendWillReimburse
RequestedShare(r) == IF r.friendWillReimburse THEN r.friendShareCents ELSE 0

\* C9: an expense with total T and requested share S is built with
\* shared = min(S, T) and personal = T - shared >= 0: a debit to the
\* expense-sink for personal only if personal > 0, a debit to the
\* friend-receivable account for shared only if shared > 0 and that account
\* exists, exactly one credit, to the payment account, for T, and no entry
\* with an amount <= 0.
C9_ExpenseSplit ==
  \A p \in Procs :
    (AtCommit(p) /\ req[p].direction = "expense") =>
      LET accs == UserAccounts(accounts, req[p].user)
          list == built[p]
          T == req[p].amountCents
          shared == Min(RequestedShare(req[p]), T)
          personal == T - shared
          sink == getFirst(accs, "expense")
          friends == getFirst(accs, "friends_owe")
          toFriends == IF friends = NoId THEN {} ELSE DebitsTo(list, friends)
          toSink == DebitsTo(list, sink)
      IN  /\ personal >= 0
          /\ Debits(list) = toSink \cup toFriends
          /\ (personal > 0) <=> (\E i \in toSink : list[i].amount_cents = personal)
          /\ IF shared > 0 /\ friends # NoId
             THEN /\ Cardinality(toFriends) = 1
                  /\ SumAt(list, toFriends) = shared
                  /\ SumAt(list, toSink) = personal
             ELSE /\ toFriends = {}
                  /\ SumAt(list, toSink) = T
          /\ Cardinality(Credits(list)) = 1
          /\ \A i \in Credits(list) :
               /\ list[i].amount_cents = T
               /\ list[i].account_id = paymentAccountId(accs, req[p])
          /\ \A i \in 1..Len(list) : list[i].amount_cents > 0

\* total 1000 with 1500 requested: shared 1000, personal 0, a single debit
C9_Witness ==
  \E p \in Procs :
    /\ AtCommit(p)
    /\ req[p].direction = "expense"
    /\ req[p].amountCents = 1000 /\ RequestedShare(req[p]) = 1500
    /\ built[p] = <<Entry(FriendsOweMe, "debit", 1000),
                    Entry(paymentAccountId(UserAccounts(accounts, User), req[p]),
                          "credit", 1000)>>

\* C10: an expense always has a debit; with no friend-receivable account
\* an expense whose share equals the total still debits the expense-sink
\* for the full total.
C10_ZeroDebitGuard ==
  \A p \in Procs :
    (AtCommit(p) /\ req[p].direction = "expense") =>
      LET accs == UserAccounts(accounts, req[p].user)
          list == built[p]
          T == req[p].amountCents
          sink == getFirst(accs, "expense")
      IN  /\ Debits(list) # {}
          /\ (getFirst(accs, "friends_owe") = NoId
                /\ Min(RequestedShare(req[p]), T) = T)
             => /\ Debits(list) = DebitsTo(list, sink)
                /\ SumAt(list, DebitsTo(list, sink)) = T

\* total 500, share 500, no friends account: a debit of 500 to the sink
C10_Witness ==
  \E p \in Procs :
    /\ AtCommit(p)
    /\ getFirst(UserAccounts(accounts, User), "friends_owe") = NoId
    /\ req[p].amountCents = 500 /\ RequestedShare(req[p]) = 500
    /\ built[p][1] = Entry(ExpenseSink, "debit", 500)
    /\ Len(built[p]) = 2

\* the request is a plain transfer: the transfer branch of the handler
IsTransfer(r) == r.direction = "transfer" /\ ~r.isFriendRepayment

\* source and destination of a transfer as the handler resolves them: the
\* explicit ids, else the name hints, else the default source
TransferSource(accs, r) ==
  IF transferFrom(accs, r) # NoId THEN transferFrom(accs, r)
  ELSE getFirst(accs, "checking")

TransferDestination(accs, r) == transferTo(accs, r)

\* the handler has built the request's entries or answered it
Handled(p) == pc[p] = "rpc" \/ (pc[p] = "done" /\ resp[p] # NoResp)

\* C11: a transfer whose source and destination resolve to the same
\* account (given as ids, found by name hints, or the source filled in by
\* the default) is answered with an error and persists no transaction and
\* no entry; no transfer reaches the commit step with both entries on one
\* account.
C11_TransferRejectsSelfLoop ==
  \A p \in Procs :
    (req[p].via = "route" /\ IsTransfer(req[p]) /\ Handled(p)) =>
      LET accs == UserAccounts(accounts, req[p].user)
      IN  /\ (TransferSource(accs, req[p]) = TransferDestination(accs, req[p])) =>
                /\ pc[p] = "done" /\ ~resp[p].ok /\ resp[p].http = 400
                /\ transactions = {} /\ entries = {}
          /\ built[p] # <<>> =>
                \A i, j \in 1..Len(built[p]) :
                  i # j => built[p][i].account_id # built[p][j].account_id

\* both ends found by name hints resolve to the first SoFi account
C11_Witness ==
  \E p \in Procs :
    /\ IsTransfer(req[p]) /\ pc[p] = "done"
    /\ req[p].fromAccountId = NoId /\ req[p].accountId = NoId
    /\ req[p].fromAccountName = "sofi" /\ req[p].toAccountName = "sofi"
    /\ resp[p] = ErrResp(400, "transfer_same_account")
    /\ transactions = {}

\* C12: a transfer reaches the commit step only when both its source and
\* its destination were resolved from the request (an id or a name hint)
\* to distinct active accounts of the user; the source is never the default
\* account standing in for an unresolved one.
C12_TransferBothResolved ==
  \A p \in Procs :
    (AtCommit(p) /\ IsTransfer(req[p])) =>
      LET accs == UserAccounts(accounts, req[p].user)
          src == transferFrom(accs, req[p])
          dst == transferTo(accs, req[p])
      IN  /\ src # NoId /\ dst # NoId /\ src # dst
          /\ SelectedAccount(accs, src) # NoId
          /\ SelectedAccount(accs, dst) # NoId
          /\ built[p] = <<Entry(dst, "debit", req[p].amountCents),
                          Entry(src, "credit", req[p].amountCents)>>

\* a transfer to the card that names no source is built with the first
\* checking account as its source
C12_Witness ==
  \E p \in Procs :
    /\ AtCommit(p) /\ IsTransfer(req[p])
    /\ req[p].fromAccountId = NoId /\ req[p].fromAccountName = ""
    /\ req[p].accountId = AppleCard
    /\ transferFrom(UserAccounts(accounts, User), req[p]) = NoId
    /\ built[p] = <<Entry(AppleCard, "debit", req[p].amountCents),
                    Entry(SofiChecking, "credit", req[p].amountCents)>>

\* C13: a request marked as a friend repayment is built as exactly a debit
\* of the total to a receiving account and a credit of the total to the
\* friends account, with no entry on the income or expense sink; when the
\* user has no friends account it is answered with an error and nothing is
\* persisted.
C13_FriendSettlement ==
  \A p \in Procs :
    (req[p].via = "route" /\ req[p].isFriendRepayment /\ Handled(p)) =>
      LET accs == UserAccounts(accounts, req[p].user)
          friends == getFirst(accs, "friends_owe")
          T == req[p].amountCents
      IN  IF friends = NoId
          THEN /\ pc[p] = "done" /\ ~resp[p].ok
               /\ transactions = {} /\ entries = {}
          ELSE /\ Len(built[p]) = 2
               /\ built[p][1].entry_type = "debit" /\ built[p][1].amount_cents = T
               /\ built[p][2] = Entry(friends, "credit", T)
               /\ \A i \in 1..Len(built[p]) :
                    built[p][i].account_id \notin
                      {getFirst(accs, "income"), getFirst(accs, "expense")}

\* a friend repayment sent with direction income is booked as income
C13_Witness ==
  \E p \in Procs :
    /\ req[p].isFriendRepayment /\ req[p].direction = "income"
    /\ pc[p] = "done" /\ resp[p].ok
    /\ built[p] = <<Entry(SofiChecking, "debit", req[p].amountCents),
                    Entry(IncomeSink, "credit", req[p].amountCents)>>
    /\ \E t \in transactions : t.id = resp[p].transactionId

-----------------------------------------------------------------------------
(* One request through the whole POST handler, from the parsed body on     *)

\* refunds as the categorizer labels them (direction other, isRefund) and
\* as money received (direction income); the schema has no isRefund key
RefundRequests ==
  { [BaseRequest EXCEPT !.direction = d, !.isRefund = TRUE, !.amountCents = a,
                        !.accountId = id, !.paymentModeName = pm]
      : d \in {"other", "income"}, a \in {1, 10000},
        id \in {NoId, AppleCard}, pm \in {"", "apple"} }

CreateRequests == BuildRequests \cup RefundRequests

InitCreate ==
  /\ accounts \in BuildAccounts
  /\ transactions = {}
  /\ entries = {}
  /\ nextId = FirstFreeId
  /\ pc = [p \in Procs |-> IF p = 1 THEN "idle" ELSE "done"]
  /\ req = [p \in Procs |-> BaseRequest]
  /\ missing = [p \in Procs |-> <<>>]
  /\ built = [p \in Procs |-> <<>>]
  /\ resp = [p \in Procs |-> NoResp]
  /\ seenDone = [p \in Procs |-> {}]
  /\ view = NoView
  /\ client = NoClient
  /\ limiter = NoLimiter

NextCreate ==
  \/ \E p \in Procs, r \in CreateRequests : Lookup(p, r)
  \/ \E p \in Procs : BootstrapFails(p)
  \/ \E p \in Procs : BootstrapRead(p)
  \/ \E p \in Procs : BootstrapInsert(p)
  \/ \E p \in Procs : Build(p)
  \/ \E p \in Procs : Rpc(p)

SpecCreate == InitCreate /\ [][NextCreate]_vars

\* C14: a refund submitted to the create route is built as exactly a debit
\* of the total to the receiving account and a credit of the total to the
\* expense sink.
C14_RefundReversal ==
  \A p \in Procs :
    (req[p].via = "route" /\ req[p].isRefund /\ Handled(p)) =>
      LET accs == UserAccounts(accounts, req[p].user)
          T == req[p].amountCents
      IN  /\ Len(built[p]) = 2
          /\ built[p][1].entry_type = "debit" /\ built[p][1].amount_cents = T
          /\ built[p][1].account_id # getFirst(accs, "expense")
          /\ built[p][2] = Entry(getFirst(accs, "expense"), "credit", T)

\* the refund of the categorizer is refused by the schema of the route
C14_Witness ==
  \E p \in Procs :
    /\ req[p].isRefund /\ req[p].direction = "other"
    /\ req[p].amountCents = 10000
    /\ pc[p] = "done" /\ resp[p] = ErrResp(400, "invalid_body")
    /\ transactions = {} /\ entries = {}

-----------------------------------------------------------------------------
(* The read routes: GET /api/transactions/list and GET /api/analytics      *)

\* accounts.find((a) => a.account_name === name)?.id || null
internalAccountId(accs, name) ==
  FindId(accs, {a \in Range(accs) : a.name = name})

\* the orders in which a query without ORDER BY can return a set of rows
RECURSIVE Orderings(_)
Orderings(rows) ==
  IF rows = {} THEN {<<>>}
  ELSE UNION {{<<e>> \o rest : rest \in Orderings(rows \ {e})} : e \in rows}

\* entries.filter((e) => e.transaction_id === transactionId)
RECURSIVE txEntries(_, _)
txEntries(fetched, transactionId) ==
  IF fetched = <<>> THEN <<>>
  ELSE IF Head(fetched).tx = transactionId
  THEN <<Head(fetched)>> \o txEntries(Tail(fetched), transactionId)
  ELSE txEntries(Tail(fetched), transactionId)

\* the listing's deriveDirection: the first entry that touches an internal
\* account decides
RECURSIVE deriveDirection(_, _, _)
deriveDirection(list, incomeAccountId, expenseAccountId) ==
  IF list = <<>> THEN "transfer"
  ELSE LET entry == Head(list)
       IN  IF entry.account = expenseAccountId /\ entry.type = "debit"
           THEN "expense"
           ELSE IF entry.account = expenseAccountId /\ entry.type = "credit"
           THEN "other"
           ELSE IF entry.account = incomeAccountId /\ entry.type = "credit"
           THEN "income"
           ELSE deriveDirection(Tail(list), incomeAccountId, expenseAccountId)

\* the analytics route's deriveDirection
RECURSIVE deriveDirection_analytics(_, _, _)
deriveDirection_analytics(list, incomeAccountId, expenseAccountId) ==
  IF list = <<>> THEN "transfer"
  ELSE LET entry == Head(list)
       IN  IF entry.account = expenseAccountId /\ entry.type = "debit"
           THEN "expense"
           ELSE IF entry.account = incomeAccountId /\ entry.type = "credit"
           THEN "income"
           ELSE deriveDirection_analytics(Tail(list), incomeAccountId,
                                          expenseAccountId)

\* for (const tx of transactions) if (direction === d) total += tx.amount_cents
RECURSIVE totalOf(_, _, _)
totalOf(txs, direction, d) ==
  IF txs = {} THEN 0
  ELSE LET tx == CHOOSE t \in txs : TRUE
       IN  (IF direction[tx.id] = d THEN tx.amount ELSE 0)
             + totalOf(txs \ {tx}, direction, d)

\* analytics: accountBalances, folded over all entries of all transactions
\* of the user
analyticsBalances(accs, txs, rows, user) ==
  LET mine == {a \in Range(accs) : a.user = user}
      allTransactionIds == {t.id : t \in {x \in txs : x.user = user}}
      allEntries == {e \in rows : e.tx \in allTransactionIds}
  IN  [id \in {a.id : a \in mine} |->
         LET acc == CHOOSE a \in mine : a.id = id
         IN  foldBalance(acc.initial, {e \in allEntries : e.account = id})]

\* analytics: accountSummaries of the accounts whose name does not start
\* with "_": balance_cents: accountBalances[a.id] || a.initial_balance_cents
accountSummaries(accs, txs, rows, user) ==
  LET shown == {a \in Range(accs) : a.user = user /\ Head(Chars(a.name)) # "_"}
      bal == analyticsBalances(accs, txs, rows, user)
  IN  [id \in {a.id : a \in shown} |->
         LET acc == CHOOSE a \in shown : a.id = id
         IN  IF bal[id] # 0 THEN bal[id] ELSE acc.initial]

\* analytics: friendsOweMe = accountBalances[friendsAccount.id] || 0
friendsOweMe(accs, txs, rows, user) ==
  LET mine == UserAccounts(accs, user)
      friendsAccount ==
        FindId(mine, {a \in Range(mine) :
                        Includes(LowerName(a), Chars("friends owe me"))})
  IN  IF friendsAccount = NoId THEN 0
      ELSE analyticsBalances(accs, txs, rows, user)[friendsAccount]

\* GET /api/transactions/list without filters: deleted transactions hidden,
\* the entries of the page fetched in one query, a direction per transaction
ListGet(u) ==
  LET accs == UserAccounts(accounts, u)
      incomeAccountId == internalAccountId(accs, "_Income")
      expenseAccountId == internalAccountId(accs, "_Expenses")
      page == {t \in transactions : t.user = u /\ ~t.deleted}
      rows == {e \in entries : \E t \in page : e.tx = t.id}
  IN  /\ \E fetched \in Orderings(rows) :
           view' = [route |-> "list", user |-> u,
                    direction |-> [id \in {t.id : t \in page} |->
                       deriveDirection(txEntries(fetched, id),
                                       incomeAccountId, expenseAccountId)],
                    totalIncome |-> 0, totalExpenses |-> 0,
                    accountSummaries |-> <<>>, friendsOweMe |-> 0]
      /\ UNCHANGED <<client, limiter, accounts, transactions, entries, nextId, pc, req, missing,
                     built, resp, seenDone>>

\* GET /api/analytics for the month all transactions are dated in: the
\* transactions of the month, all entries of the user, the two totals
AnalyticsGet(u) ==
  LET accs == UserAccounts(accounts, u)
      incomeAccountId == internalAccountId(accs, "_Income")
      expenseAccountId == internalAccountId(accs, "_Expenses")
      month == {t \in transactions : t.user = u}
      rows == {e \in entries : \E t \in month : e.tx = t.id}
  IN  /\ \E allEntries \in Orderings(rows) :
           LET direction == [id \in {t.id : t \in month} |->
                  deriveDirection_analytics(txEntries(allEntries, id),
                                            incomeAccountId, expenseAccountId)]
           IN  view' = [route |-> "analytics", user |-> u,
                        direction |-> direction,
                        totalIncome |-> totalOf(month, direction, "income"),
                        totalExpenses |-> totalOf(month, direction, "expense"),
                        accountSummaries |->
                          accountSummaries(accounts, transactions, entries, u),
                        friendsOweMe |->
                          friendsOweMe(accounts, transactions, entries, u)]
      /\ UNCHANGED <<client, limiter, accounts, transactions, entries, nextId, pc, req, missing,
                     built, resp, seenDone>>

\* ledger movements written through the database function
expenseCall ==
  <<RpcCall(User, 10000, "expense"),
    <<Entry(ExpenseSink, "debit", 10000), Entry(AppleCard, "credit", 10000)>>>>

refundCall ==
  <<RpcCall(User, 10000, "refund"),
    <<Entry(SofiChecking, "debit", 10000), Entry(ExpenseSink, "credit", 10000)>>>>

incomeCall ==
  <<RpcCall(User, 10000, "income"),
    <<Entry(SofiChecking, "debit", 10000), Entry(IncomeSink, "credit", 10000)>>>>

transferCall ==
  <<RpcCall(User, 10000, "transfer"),
    <<Entry(AppleCard, "debit", 10000), Entry(SofiChecking, "credit", 10000)>>>>

mixedCall ==
  <<RpcCall(User, 10000, "mixed"),
    <<Entry(IncomeSink, "credit", 10000), Entry(ExpenseSink, "debit", 10000)>>>>

\* the card's debt of 500.00 paid from checking
payoffCall ==
  <<RpcCall(User, 50000, "payoff"),
    <<Entry(AppleCard, "debit", 50000), Entry(SofiChecking, "credit", 50000)>>>>

LedgerCalls ==
  {expenseCall, refundCall, incomeCall, transferCall, mixedCall, payoffCall}

InitRead ==
  /\ accounts = SeededAccounts
  /\ transactions = {}
  /\ entries = {}
  /\ nextId = FirstFreeId
  /\ pc = [p \in Procs |-> "idle"]
  /\ req = [p \in Procs |-> BaseRequest]
  /\ missing = [p \in Procs |-> <<>>]
  /\ built = [p \in Procs |-> <<>>]
  /\ resp = [p \in Procs |-> NoResp]
  /\ seenDone = [p \in Procs |-> {}]
  /\ view = NoView
  /\ client = NoClient
  /\ limiter = NoLimiter

NextRead ==
  \/ \E p \in Procs, c \in LedgerCalls : DirectRpc(p, c)
  \/ \E p \in Procs : Rpc(p)
  \/ \E id \in TxIds : DeleteTransaction(User, id)
  \/ ListGet(User)
  \/ AnalyticsGet(User)

SpecRead == InitRead /\ [][NextRead]_vars

-----------------------------------------------------------------------------
(* Properties of the read routes                                           *)

\* the committed transaction of a ledger call
TxOfCall(c) ==
  {t \in transactions : \E p \in Procs : req[p] = c[1] /\ Committed(p, t.id)}

\* the precedence over the whole entry set of a transaction
DirectionByPrecedence(rows) ==
  IF \E e \in rows : e.account = ExpenseSink /\ e.type = "debit" THEN "expense"
  ELSE IF \E e \in rows : e.account = ExpenseSink /\ e.type = "credit" THEN "other"
  ELSE IF \E e \in rows : e.account = IncomeSink /\ e.type = "credit" THEN "income"
  ELSE "transfer"

\* the only entry of the transaction on an internal account is a credit to
\* the expense sink
OnlyCreditsExpenseSink(rows) ==
  /\ \E e \in rows : e.account = ExpenseSink /\ e.type = "credit"
  /\ \A e \in rows :
       e.account \in {ExpenseSink, IncomeSink} =>
         e.account = ExpenseSink /\ e.type = "credit"

\* an expense of 10000 and, after it, its refund of 10000 are in the ledger
\* and in the report
ExpenseThenRefund ==
  /\ view.route = "analytics"
  /\ \E x \in TxOfCall(expenseCall), r \in TxOfCall(refundCall) :
       /\ x.id < r.id
       /\ transactions = {x, r}
       /\ DOMAIN view.direction = {x.id, r.id}

\* C15: after an expense of 10000 against the expense sink followed by a
\* refund of 10000 crediting the expense sink in the same period, the
\* expense total reported for the period is 0.
C15_RefundNetsExpense ==
  ExpenseThenRefund => view.totalExpenses = 0

\* the report counts the expense and leaves the refund out as a transfer
C15_Witness ==
  /\ ExpenseThenRefund
  /\ view.totalExpenses = 10000
  /\ \A r \in TxOfCall(refundCall) : view.direction[r.id] = "transfer"

\* C16: the listing derives the direction by precedence over the whole
\* entry set, whatever the order of the entries: expense if any entry
\* debits the expense sink, else other if any credits it, else income if
\* any credits the income sink, else transfer; the entries credit income
\* sink, debit expense sink are an expense.
C16_DirectionPrecedence ==
  view.route = "list" =>
    \A id \in DOMAIN view.direction :
      view.direction[id] = DirectionByPrecedence(EntriesOf(entries, id))

\* the listing shows the transaction credit income sink, debit expense sink
\* as income
C16_Witness ==
  /\ view.route = "list"
  /\ \E t \in TxOfCall(mixedCall) :
       /\ t.id \in DOMAIN view.direction
       /\ EntriesOf(entries, t.id) = RowsOf(mixedCall[2], t.id)
       /\ view.direction[t.id] = "income"

\* C17: wherever a direction is derived, listing or analytics, a
\* transaction whose only entry on an internal account is a credit to the
\* expense sink is other, never transfer.
C17_RefundIsOther ==
  view.route \in {"list", "analytics"} =>
    \A id \in DOMAIN view.direction :
      OnlyCreditsExpenseSink(EntriesOf(entries, id)) =>
        view.direction[id] = "other"

\* analytics derives transfer for the refund the listing derives other for
C17_Witness ==
  /\ view.route = "analytics"
  /\ \E t \in TxOfCall(refundCall) :
       /\ t.id \in DOMAIN view.direction
       /\ OnlyCreditsExpenseSink(EntriesOf(entries, t.id))
       /\ view.direction[t.id] = "transfer"
       /\ \A list \in Orderings(EntriesOf(entries, t.id)) :
            deriveDirection(list, IncomeSink, ExpenseSink) = "other"

-----------------------------------------------------------------------------
(* The account resolvers of the POST handler over name fragments and ids   *)

\* an account the user added after the seeded ones; rows come back in
\* the order of created_at
AppleSavings == FirstFreeId

WithApple(accs) ==
  accs \o <<Account(AppleSavings, User, "Apple", "savings", 0, TRUE)>>

ResolveAccounts ==
  { SeededAccounts,
    WithApple(SeededAccounts),
    WithApple(Deactivate(SeededAccounts, {AppleCard})) }

\* payments, receipts and friend repayments with an id, a fragment or both
ResolveRequests ==
  { [BaseRequest EXCEPT !.direction = d, !.amountCents = a,
                        !.isFriendRepayment = (d = "transfer"),
                        !.accountId = id, !.paymentModeName = pm]
      : d \in {"expense", "income", "transfer"}, a \in {1, 500},
        id \in {NoId, AppleCard, Foreign, Unknown},
        pm \in {"", "apple", "Apple", "credit card", "amex", "my card", "cash"} }

InitResolve ==
  /\ accounts \in ResolveAccounts
  /\ transactions = {}
  /\ entries = {}
  /\ nextId = AppleSavings + 1
  /\ pc = [p \in Procs |-> IF p = 1 THEN "build" ELSE "done"]
  /\ \E r \in ResolveRequests : req = [p \in Procs |-> r]
  /\ missing = [p \in Procs |-> <<>>]
  /\ built = [p \in Procs |-> <<>>]
  /\ resp = [p \in Procs |-> NoResp]
  /\ seenDone = [p \in Procs |-> {}]
  /\ view = NoView
  /\ client = NoClient
  /\ limiter = NoLimiter

SpecResolve == InitResolve /\ [][NextBuild]_vars

\* the fragment as the resolvers compare it
Fragment(r) == ToLower(Chars(r.paymentModeName))

\* the account the handler resolved for the money side of the entries
ResolvedAccount(p) ==
  IF req[p].direction = "expense" THEN built[p][Len(built[p])].account_id
  ELSE built[p][1].account_id

\* a request resolved by its fragment alone
ByFragment(p) ==
  /\ req[p].via = "route" /\ Handled(p) /\ built[p] # <<>>
  /\ req[p].accountId = NoId /\ req[p].paymentModeName # ""

ExactMatches(accs, f) ==
  {a.id : a \in {x \in Range(accs) : x.active /\ LowerName(x) = f}}

SubstringMatches(accs, f) ==
  {a.id : a \in {x \in Range(accs) : x.active /\
                   (Includes(LowerName(x), f) \/ Includes(f, LowerName(x)))}}

AliasMatches(accs, f) ==
  {a.id : a \in {x \in Range(accs) :
     \/ Includes(f, Chars("chase")) /\ Includes(f, Chars("freedom"))
          /\ x.name = "Chase Freedom"
     \/ Includes(f, Chars("amex")) /\ x.name = "Amex Gold"
     \/ Includes(f, Chars("discover")) /\ x.name = "Discover it"}}

PrecedenceHolds(p) ==
  LET accs == UserAccounts(accounts, req[p].user)
      f == Fragment(req[p])
      named == ExactMatches(accs, f) \cup SubstringMatches(accs, f)
                 \cup AliasMatches(accs, f)
  IN  /\ ExactMatches(accs, f) # {} => ResolvedAccount(p) \in ExactMatches(accs, f)
      /\ (named # {} /\ Includes(f, Chars("credit"))) =>
           ResolvedAccount(p) \in named

\* C18: for a name fragment, an active account whose name equals the
\* fragment case-insensitively is returned even when another account,
\* created earlier, matches by substring, alias or the credit keyword; the
\* credit-keyword fallback is returned only when nothing matches by name or
\* alias.
C18_ResolverPrecedence ==
  \A p \in Procs : ByFragment(p) => PrecedenceHolds(p)

\* a friend repayment received on "apple" is booked on Apple Card although
\* the account Apple matches the fragment exactly
C18_Witness ==
  \E p \in Procs :
    /\ ByFragment(p) /\ req[p].isFriendRepayment
    /\ req[p].paymentModeName = "apple"
    /\ AppleSavings \in ExactMatches(UserAccounts(accounts, req[p].user),
                                     Fragment(req[p]))
    /\ ResolvedAccount(p) = AppleCard
    /\ pc[p] = "done" /\ resp[p].ok

\* the payment account resolver alone keeps the precedence
PaymentResolverPrecedence ==
  \A p \in Procs : (ByFragment(p) /\ ~req[p].isFriendRepayment) => PrecedenceHolds(p)

\* a request whose explicit id is not an active account of the user and
\* whose fragment matches one by name
DeadIdLiveFragment(p) ==
  LET accs == UserAccounts(accounts, req[p].user)
      f == Fragment(req[p])
  IN  /\ req[p].via = "route" /\ Handled(p) /\ built[p] # <<>>
      /\ req[p].accountId # NoId
      /\ SelectedAccount(accs, req[p].accountId) = NoId
      /\ req[p].paymentModeName # ""
      /\ ExactMatches(accs, f) \cup SubstringMatches(accs, f) # {}

\* C19: with an explicit id that does not resolve to an active account of
\* the user and a fragment that matches an active account, the resolver
\* returns the account matched by the fragment, not the default account.
C19_FallsThroughToFragment ==
  \A p \in Procs :
    DeadIdLiveFragment(p) =>
      LET accs == UserAccounts(accounts, req[p].user)
          f == Fragment(req[p])
      IN  ResolvedAccount(p) \in ExactMatches(accs, f) \cup SubstringMatches(accs, f)

\* an expense paid with "apple" and an unknown id is credited to checking
C19_Witness ==
  \E p \in Procs :
    /\ DeadIdLiveFragment(p)
    /\ req[p].direction = "expense" /\ req[p].accountId = Unknown
    /\ req[p].paymentModeName = "apple"
    /\ AppleCard \in SubstringMatches(UserAccounts(accounts, req[p].user),
                                      Fragment(req[p]))
    /\ ResolvedAccount(p) = SofiChecking
    /\ pc[p] = "done" /\ resp[p].ok

-----------------------------------------------------------------------------
(* Updates of a stored transaction: the PATCH route and the database       *)
(* function update_transaction_with_entries                                *)

\* update_transaction_with_entries run by `user`: the tables after the call
\* and the exception raised, if any; the function runs in one database
\* transaction, so a call that raises leaves the tables as they were
update_transaction_with_entries(accs, txs, rows, user, id, description, amount, list) ==
  LET loop == entryLoop(accs, user, id, list, Len(list))
      newRows == {e \in rows : e.tx # id} \cup loop.rows
  IN  IF ~ \E t \in txs : t.id = id /\ t.user = user
      THEN [error |-> "transaction not found", txs |-> txs, rows |-> rows]
      ELSE IF amount <= 0
      THEN [error |-> "transactions_amount_cents_check", txs |-> txs, rows |-> rows]
      ELSE IF loop.error # ""
      THEN [error |-> loop.error, txs |-> txs, rows |-> rows]
      ELSE IF ensure_transaction_balanced(newRows, id)
      THEN [error |-> "unbalanced", txs |-> txs, rows |-> rows]
      ELSE [error |-> "",
            txs |-> {IF t.id = id
                     THEN [t EXCEPT !.description = description, !.amount = amount]
                     ELSE t : t \in txs},
            rows |-> newRows]

\* the description, amount and entries a client passes to the function
UpdateCalls ==
  { <<"d1", 10000,
      <<Entry(ExpenseSink, "debit", 10000), Entry(AppleCard, "credit", 10000)>>>>,
    <<"d1", 500,
      <<Entry(ExpenseSink, "debit", 500), Entry(AppleCard, "credit", 500)>>>>,
    <<"d1", 10000,
      <<Entry(SofiChecking, "debit", 10000), Entry(IncomeSink, "credit", 10000)>>>>,
    <<"d1", 10000, <<Entry(SofiChecking, "debit", 10000)>>>>,
    <<"d1", 0,
      <<Entry(ExpenseSink, "debit", 10000), Entry(AppleCard, "credit", 10000)>>>> }

\* a client calls update_transaction_with_entries
UpdateWithEntries(u, id, c) ==
  /\ LET s == update_transaction_with_entries(accounts, transactions, entries,
                                              u, id, c[1], c[2], c[3])
     IN  transactions' = s.txs /\ entries' = s.rows
  /\ UNCHANGED <<view, client, limiter, accounts, nextId, pc, req, missing, built, resp, seenDone>>

NextUpdate ==
  \/ \E p \in Procs, c \in LedgerCalls : DirectRpc(p, c)
  \/ \E p \in Procs : Rpc(p)
  \/ \E id \in TxIds, d \in Descriptions : PatchTransaction(User, id, d)
  \/ \E u \in {User, Other}, id \in TxIds, c \in UpdateCalls :
       UpdateWithEntries(u, id, c)

SpecUpdate == InitRead /\ [][NextUpdate]_vars

\* the PATCH route leaves the entries and the amounts alone
PatchKeepsEntries ==
  [][(\E id \in TxIds, d \in Descriptions : PatchTransaction(User, id, d)) =>
       /\ entries' = entries
       /\ \A t \in transactions : \E n \in transactions' :
            n.id = t.id /\ n.amount = t.amount]_vars

\* the stored transaction still has the entries and the total of its creation
AsCreated(t) ==
  \E p \in Procs :
    /\ Committed(p, t.id)
    /\ EntriesOf(entries, t.id) = RowsOf(built[p], t.id)
    /\ t.amount = req[p].amountCents

\* C20: no update of an existing transaction touches its entries: after
\* any update the entries and the total of the transaction, and with them
\* the balances and the derived direction, are what they were before.
C20_UpdatesKeepEntries ==
  /\ \A t \in transactions : AsCreated(t)
  /\ \A u \in {User} :
       accountBalances(accounts, transactions, entries, u) =
         accountBalances(accounts, transactions,
           UNION {RowsOf(built[p], resp[p].transactionId) :
                    p \in {q \in Procs : resp[q].ok /\ ~resp[q].cached}}, u)

\* an expense rewritten by update_transaction_with_entries into a receipt
C20_Witness ==
  \E t \in TxOfCall(expenseCall) :
    /\ t.description = "d1" /\ t.amount = 10000
    /\ EntriesOf(entries, t.id) =
         RowsOf(<<Entry(SofiChecking, "debit", 10000),
                  Entry(IncomeSink, "credit", 10000)>>, t.id)
    /\ \A list \in Orderings(EntriesOf(entries, t.id)) :
         deriveDirection(list, IncomeSink, ExpenseSink) = "income"

-----------------------------------------------------------------------------
(* The browser: Confirm (save), the localStorage queue and its two sync     *)
(* loops, against the POST /api/transactions/create handler                *)

MaxFetches == 6

\* the POST handler run from parse to response with no other request in
\* between, b being what it builds from the accounts it reads: the tables
\* after it and the response
createRoute(accs, txs, rows, r, fresh, b) ==
  LET existing == idempotencyLookup(txs, r.user, r.idempotencyKey)
      run == create_transaction_with_entries(
               accs, txs, r.user, r.amountCents,
               finalIdempotencyKey(r, fresh), b.entries, fresh)
      kept == persisted(run)
  IN  IF ~schemaOk(r)
      THEN [txs |-> txs, rows |-> rows, nextId |-> fresh,
            resp |-> ErrResp(400, "invalid_body")]
      ELSE IF r.idempotencyKey # "" /\ existing # NoId
      THEN [txs |-> txs, rows |-> rows, nextId |-> fresh,
            resp |-> OkResp(existing, TRUE)]
      ELSE IF b.status # "ok"
      THEN [txs |-> txs, rows |-> rows, nextId |-> fresh,
            resp |-> ErrResp(b.http, b.status)]
      ELSE [txs |-> txs \cup kept.txs, rows |-> rows \cup kept.rows,
            nextId |-> IF run.error = "" THEN fresh + 1 + Len(b.entries) ELSE fresh,
            resp |-> rpcResponse(run)]

\* What becomes of one fetch: the handler answers; the handler answers but
\* the response never arrives; the request never arrives; or the handler
\* refuses before touching the tables (401 auth, 429 rate limit, 503 auth
\* timeout)
Outcomes == {"served", "lost", "network", "401", "429", "503"}

\* the status the caller of fetch sees (0: fetch threw) and the tables
\* after, s being what the handler does when the request reaches it
fetchCreate(s, txs, rows, fresh, outcome) ==
  LET same == [txs |-> txs, rows |-> rows, nextId |-> fresh]
  IN  IF outcome = "served"
      THEN [txs |-> s.txs, rows |-> s.rows, nextId |-> s.nextId,
            status |-> s.resp.http]
      ELSE IF outcome = "lost"
      THEN [txs |-> s.txs, rows |-> s.rows, nextId |-> s.nextId, status |-> 0]
      ELSE IF outcome = "network" THEN same @@ [status |-> 0]
      ELSE IF outcome = "401" THEN same @@ [status |-> 401]
      ELSE IF outcome = "429" THEN same @@ [status |-> 429]
      ELSE same @@ [status |-> 503]

\* response.ok
ResponseOk(status) == status >= 200 /\ status <= 299

\* the drafts the user confirms, each once: two payments and a transfer
\* from an account to itself
Drafts ==
  { [BaseRequest EXCEPT !.amountCents = 2000, !.paymentModeName = "apple"],
    [BaseRequest EXCEPT !.direction = "income", !.amountCents = 3000],
    [BaseRequest EXCEPT !.direction = "transfer", !.amountCents = 500,
                        !.accountId = SofiChecking] }

\* `p_${Date.now()}_${Math.random()...}`: the n-th fresh item id
ItemId(n) == <<"p_1", "p_2", "p_3">>[n]

\* enqueue(parsed, idempotencyKey)
enqueue(items, parsed, idempotencyKey, fresh) ==
  Append(items, [id |-> IF idempotencyKey # "" THEN idempotencyKey ELSE fresh,
                 parsed |-> parsed, idempotencyKey |-> idempotencyKey])

\* removePending(id)
removePending(items, id) == SelectSeq(items, LAMBDA i : i.id # id)

\* the tables after a fetch
Served(f) ==
  /\ transactions' = f.txs
  /\ entries' = f.rows
  /\ nextId' = f.nextId
  /\ UNCHANGED <<view, limiter, accounts, pc, req, missing, built, resp, seenDone>>

\* Confirm (save): POST { parsed: draft }; queue the draft unless res.ok
Confirm(d, outcome) ==
  /\ client.loop # "sync" /\ client.loop # "flush"
  /\ d \notin client.confirmed
  /\ client.fetches < MaxFetches
  /\ \E b \in {buildEntries(UserAccounts(accounts, d.user), d)} :
     \E s \in {createRoute(accounts, transactions, entries, d, nextId, b)} :
     \E f \in {fetchCreate(s, transactions, entries, nextId, outcome)} :
         /\ Served(f)
         /\ client' =
              [client EXCEPT
                 !.confirmed = @ \cup {d},
                 !.fetches = @ + 1,
                 !.queue = IF ResponseOk(f.status) THEN @
                           ELSE enqueue(@, d, "", ItemId(Cardinality(client.confirmed) + 1))]

\* a loop that stops at the first item that fails
syncAdvance_break(i, n, status) == IF ResponseOk(status) THEN i + 1 ELSE n + 1

\* syncPendingTransactions goes on to the next item whatever the response
syncAdvance(i, n, status) == i + 1

\* syncPendingTransactions: const pending = loadPending()
SyncStart ==
  /\ client.loop # "sync" /\ client.loop # "flush"
  /\ client.queue # <<>>
  /\ client' = [client EXCEPT !.loop = "sync", !.pending = client.queue, !.i = 1,
                              !.synced = 0, !.failed = 0, !.log = <<>>]
  /\ UNCHANGED <<view, limiter, accounts, transactions, entries, nextId, pc, req,
                 missing, built, resp, seenDone>>

\* one pass of the for loop of syncPendingTransactions
SyncItem(outcome) ==
  /\ client.loop = "sync" /\ client.i <= Len(client.pending)
  /\ client.fetches < MaxFetches
  /\ LET item == client.pending[client.i]
         body == [item.parsed EXCEPT !.idempotencyKey =
                    IF item.idempotencyKey # "" THEN item.idempotencyKey ELSE item.id]
     IN  \E b \in {buildEntries(UserAccounts(accounts, body.user), body)} :
     \E s \in {createRoute(accounts, transactions, entries, body, nextId, b)} :
     \E f \in {fetchCreate(s, transactions, entries, nextId, outcome)} :
         /\ Served(f)
         /\ client' =
              [client EXCEPT
                 !.fetches = @ + 1,
                 !.i = syncAdvance(@, Len(client.pending), f.status),
                 !.queue = IF ResponseOk(f.status) \/ f.status = 400
                           THEN removePending(@, item.id) ELSE @,
                 !.synced = IF ResponseOk(f.status) THEN @ + 1 ELSE @,
                 !.failed = IF ResponseOk(f.status) THEN @ ELSE @ + 1,
                 !.log = Append(@, [id |-> item.id, status |-> f.status])]

\* return { synced, failed, errors }
SyncReturn ==
  /\ client.loop = "sync" /\ client.i > Len(client.pending)
  /\ client' = [client EXCEPT !.loop = "returned"]
  /\ UNCHANGED <<view, limiter, accounts, transactions, entries, nextId, pc, req,
                 missing, built, resp, seenDone>>

\* flush of the chat page, on mount and on the online event
FlushStart ==
  /\ client.loop # "sync" /\ client.loop # "flush"
  /\ client.queue # <<>>
  /\ client' = [client EXCEPT !.loop = "flush", !.pending = client.queue, !.i = 1,
                              !.synced = 0, !.failed = 0, !.log = <<>>]
  /\ UNCHANGED <<view, limiter, accounts, transactions, entries, nextId, pc, req,
                 missing, built, resp, seenDone>>

\* one pass of the for loop of flush: POST { parsed: item.parsed }, stop on
\* the first failure
FlushItem(outcome) ==
  /\ client.loop = "flush" /\ client.i <= Len(client.pending)
  /\ client.fetches < MaxFetches
  /\ LET item == client.pending[client.i]
     IN  \E b \in {buildEntries(UserAccounts(accounts, item.parsed.user), item.parsed)} :
     \E s \in {createRoute(accounts, transactions, entries, item.parsed, nextId, b)} :
     \E f \in {fetchCreate(s, transactions, entries, nextId, outcome)} :
         /\ Served(f)
         /\ client' =
              [client EXCEPT
                 !.fetches = @ + 1,
                 !.i = IF ResponseOk(f.status) THEN @ + 1 ELSE Len(client.pending) + 1,
                 !.queue = IF ResponseOk(f.status) THEN removePending(@, item.id) ELSE @,
                 !.log = Append(@, [id |-> item.id, status |-> f.status])]

FlushEnd ==
  /\ client.loop = "flush" /\ client.i > Len(client.pending)
  /\ client' = [client EXCEPT !.loop = "flushed"]
  /\ UNCHANGED <<view, limiter, accounts, transactions, entries, nextId, pc, req,
                 missing, built, resp, seenDone>>

InitSync ==
  /\ accounts = SeededAccounts
  /\ transactions = {}
  /\ entries = {}
  /\ nextId = FirstFreeId
  /\ pc = [p \in Procs |-> "done"]
  /\ req = [p \in Procs |-> BaseRequest]
  /\ missing = [p \in Procs |-> <<>>]
  /\ built = [p \in Procs |-> <<>>]
  /\ resp = [p \in Procs |-> NoResp]
  /\ seenDone = [p \in Procs |-> {}]
  /\ view = NoView
  /\ client = NoClient
  /\ limiter = NoLimiter

NextSync ==
  \/ \E d \in Drafts, o \in Outcomes : Confirm(d, o)
  \/ SyncStart
  \/ \E o \in Outcomes : SyncItem(o)
  \/ SyncReturn
  \/ FlushStart
  \/ \E o \in Outcomes : FlushItem(o)
  \/ FlushEnd

SpecSync == InitSync /\ [][NextSync]_vars

-----------------------------------------------------------------------------
(* Properties of the offline queue                                         *)

\* the transactions stored for a draft (the drafts differ in their amount)
StoredFor(d) == {t \in transactions : t.amount = d.amountCents}

\* the ids still in the queue
QueuedIds == {client.queue[k].id : k \in 1..Len(client.queue)}

\* C21: a draft whose create request was committed while its response was
\* lost or failed, and which the browser therefore queued and sent again on
\* later syncs, is stored as exactly one transaction.
C21_SyncCreatesNoDuplicate ==
  \A d \in client.confirmed : Cardinality(StoredFor(d)) <= 1

\* the payment was committed, its response lost, and the sync that sent it
\* again got a success: it is stored twice
C21_Witness ==
  /\ client.loop = "returned" /\ client.queue = <<>>
  /\ client.log = <<[id |-> "p_1", status |-> 200]>>
  /\ \E d \in client.confirmed :
       d.amountCents = 2000 /\ Cardinality(StoredFor(d)) = 2

\* C22: syncPendingTransactions attempts every pending item in queue order
\* whatever happens to the items before it; when it returns, an item is out
\* of the queue exactly when its request got a success or a 400, and
\* synced + failed is the number of items attempted.
C22_SyncLoop ==
  client.loop = "returned" =>
    /\ Len(client.log) = Len(client.pending)
    /\ \A k \in 1..Len(client.pending) :
         /\ client.log[k].id = client.pending[k].id
         /\ (client.pending[k].id \notin QueuedIds) <=>
              (ResponseOk(client.log[k].status) \/ client.log[k].status = 400)
    /\ client.synced + client.failed = Len(client.pending)
    /\ client.synced =
         Cardinality({k \in 1..Len(client.log) : ResponseOk(client.log[k].status)})

\* three items: the first refused with 429, the second lost on the way,
\* the third (the invalid transfer) answered 400; the third is removed,
\* the first two stay
C22_Witness ==
  /\ client.loop = "returned"
  /\ Len(client.pending) = 3
  /\ client.log[1].status = 429 /\ client.log[2].status = 0
  /\ client.log[3].status = 400
  /\ Len(client.queue) = 2
  /\ client.synced = 0 /\ client.failed = 3

-----------------------------------------------------------------------------
(* rateLimit.ts: checkRateLimit over the in-memory rateLimitStore, called   *)
(* by the create route and the login route                                 *)

MaxNow == 65000

\* RateLimits.LOGIN and RateLimits.TRANSACTION_CREATE
RateLimits ==
  [LOGIN |-> [maxRequests |-> 5, windowMs |-> 15 * 60 * 1000],
   TRANSACTION_CREATE |-> [maxRequests |-> 30, windowMs |-> 60 * 1000]]

\* getClientIdentifier(request): the address of the one client
Clients == {"203.0.113.7"}

\* Math.ceil(ms / 1000)
Ceil(ms) == (ms + 999) \div 1000

\* rateLimitStore.set(key, entry)
Put(store, key, entry) ==
  [k \in DOMAIN store \cup {key} |-> IF k = key THEN entry ELSE store[k]]

\* checkRateLimit letting the call through while count <= maxRequests
checkRateLimit_offByOne(store, now, identifier, config) ==
  IF identifier \notin DOMAIN store \/ store[identifier].resetAt < now
  THEN [store |-> Put(store, identifier,
                      [count |-> 1, resetAt |-> now + config.windowMs]),
        limited |-> FALSE, retryAfter |-> 0]
  ELSE IF store[identifier].count <= config.maxRequests
  THEN [store |-> Put(store, identifier,
                      [store[identifier] EXCEPT !.count = @ + 1]),
        limited |-> FALSE, retryAfter |-> 0]
  ELSE [store |-> store, limited |-> TRUE,
        retryAfter |-> Ceil(store[identifier].resetAt - now)]

\* checkRateLimit(identifier, config) at Date.now() = now: the store after
\* the call and the result (retryAfter is absent unless limited)
checkRateLimit(store, now, identifier, config) ==
  IF identifier \notin DOMAIN store \/ store[identifier].resetAt < now
  THEN [store |-> Put(store, identifier,
                      [count |-> 1, resetAt |-> now + config.windowMs]),
        limited |-> FALSE, retryAfter |-> 0]
  ELSE IF store[identifier].count < config.maxRequests
  THEN [store |-> Put(store, identifier,
                      [store[identifier] EXCEPT !.count = @ + 1]),
        limited |-> FALSE, retryAfter |-> 0]
  ELSE [store |-> store, limited |-> TRUE,
        retryAfter |-> Ceil(store[identifier].resetAt - now)]

\* the entry of a key, count 0 when the key is absent
EntryOf(store, key) ==
  IF key \in DOMAIN store THEN [present |-> TRUE, entry |-> store[key]]
  ELSE [present |-> FALSE, entry |-> [count |-> 0, resetAt |-> 0]]

\* A request of client `id` reaches the checkRateLimit call of a route.
\* Recorded with it: the entry before the call; the calls let through so
\* far in the window the call falls in (win); and the answer of a limiter
\* that keeps one entry per client and endpoint (ideal)
RateLimitedRequest(id, endpoint) ==
  LET config == RateLimits[endpoint]
      now == limiter.now
      r == checkRateLimit(limiter.store, now, id, config)
      ri == checkRateLimit(limiter.ideal, now, <<id, endpoint>>, config)
      inWindow == id \in DOMAIN limiter.win /\ now <= limiter.win[id].resetAt
      before == IF inWindow THEN limiter.win[id].allowed ELSE 0
      w == IF inWindow
           THEN [limiter.win[id] EXCEPT !.allowed = IF r.limited THEN @ ELSE @ + 1]
           ELSE [resetAt |-> now + config.windowMs,
                 allowed |-> IF r.limited THEN 0 ELSE 1]
  IN  /\ limiter' =
           [limiter EXCEPT
              !.store = r.store,
              !.ideal = ri.store,
              !.win = Put(@, id, w),
              !.last = [endpoint |-> endpoint, id |-> id, at |-> now,
                        limited |-> r.limited, retryAfter |-> r.retryAfter,
                        before |-> EntryOf(limiter.store, id),
                        opens |-> ~inWindow,
                        allowedBefore |-> before,
                        idealLimited |-> ri.limited,
                        idealBefore |-> EntryOf(limiter.ideal, <<id, endpoint>>),
                        idealAfter |-> ri.store[<<id, endpoint>>]]]
      /\ UNCHANGED <<view, client, accounts, transactions, entries, nextId, pc,
                     req, missing, built, resp, seenDone>>

\* time passes
Tick(ms) ==
  /\ limiter.now + ms <= MaxNow
  /\ limiter' = [limiter EXCEPT !.now = @ + ms]
  /\ UNCHANGED <<view, client, accounts, transactions, entries, nextId, pc,
                 req, missing, built, resp, seenDone>>

\* the setInterval callback: delete the entries with resetAt < now
Cleanup ==
  /\ \E k \in DOMAIN limiter.store : limiter.store[k].resetAt < limiter.now
  /\ limiter' =
       [limiter EXCEPT
          !.store = [k \in {x \in DOMAIN @ : @[x].resetAt >= limiter.now} |-> @[k]]]
  /\ UNCHANGED <<view, client, accounts, transactions, entries, nextId, pc,
                 req, missing, built, resp, seenDone>>

\* one client calling the create route
NextRate ==
  \/ \E id \in Clients : RateLimitedRequest(id, "TRANSACTION_CREATE")
  \/ \E ms \in {1500, 58500} : Tick(ms)
  \/ Cleanup

SpecRate == InitSync /\ [][NextRate]_vars

\* C23: for one identifier and one config, from the call that opens a
\* window until the window's resetAt at most maxRequests calls are let
\* through; every further call in the window is limited with retryAfter =
\* ceil((resetAt - now) / 1000) and changes neither the window nor the
\* count; the first call after resetAt opens a new window with count 1.
C23_RateLimitBound ==
  LET l == limiter.last
      config == RateLimits[l.endpoint]
  IN  /\ \A id \in DOMAIN limiter.win :
           limiter.win[id].allowed <= RateLimits.TRANSACTION_CREATE.maxRequests
      /\ (l.endpoint # "" /\ limiter.now = l.at) =>
           /\ l.limited <=> (~l.opens /\ l.allowedBefore >= config.maxRequests)
           /\ l.limited =>
                /\ l.retryAfter * 1000 >= l.before.entry.resetAt - l.at
                /\ (l.retryAfter - 1) * 1000 < l.before.entry.resetAt - l.at
                /\ limiter.store[l.id] = l.before.entry
           /\ (l.before.present /\ l.at > l.before.entry.resetAt) =>
                /\ ~l.limited
                /\ limiter.store[l.id] =
                     [count |-> 1, resetAt |-> l.at + config.windowMs]
           /\ l.opens =>
                limiter.store[l.id] =
                  [count |-> 1, resetAt |-> l.at + config.windowMs]

\* the 31st call of a window, 1.5 s before its end, is limited with
\* retryAfter 2
C23_Witness ==
  /\ limiter.last.endpoint = "TRANSACTION_CREATE"
  /\ limiter.last.limited /\ limiter.last.retryAfter = 2
  /\ limiter.last.allowedBefore = 30
  /\ limiter.now = limiter.last.at

\* one client calling the create route and the login route
NextLimits ==
  \/ \E id \in Clients : RateLimitedRequest(id, "TRANSACTION_CREATE")
  \/ \E id \in Clients : RateLimitedRequest(id, "LOGIN")
  \/ \E ms \in {30000, 61000} : Tick(ms)
  \/ Cleanup

SpecLimits == InitSync /\ [][NextLimits]_vars

\* C24: the limits are kept per endpoint: the requests of a client to one
\* endpoint never make a request of that client to another endpoint
\* limited and never change the window or the count that applies to the
\* other endpoint.
C24_LimitsPerEndpoint ==
  LET l == limiter.last
  IN  l.endpoint # "" =>
        /\ l.limited <=> l.idealLimited
        /\ (l.idealBefore.present /\ l.idealBefore.entry.resetAt >= l.at) =>
             l.before = l.idealBefore
        /\ limiter.now = l.at => limiter.store[l.id] = l.idealAfter

\* the first login of a client that made five create requests in the last
\* minute is refused
C24_Witness ==
  /\ limiter.last.endpoint = "LOGIN"
  /\ limiter.last.limited /\ ~limiter.last.idealLimited
  /\ ~limiter.last.idealBefore.present
  /\ limiter.last.before.entry.count = 5
  /\ limiter.ideal[<<limiter.last.id, "TRANSACTION_CREATE">>].count = 5

-----------------------------------------------------------------------------
(* The balances of the analytics report                                    *)

AccountOf(id) == CHOOSE a \in Range(accounts) : a.id = id

\* C25: for every account the balance of the analytics account summaries,
\* and the friends-owe-me figure, equal the starting balance plus debits
\* minus credits over the transactions that are not deleted, also after a
\* soft delete and for a balance of exactly 0.
C25_AnalyticsBalances ==
  LET report == accountSummaries(accounts, transactions, entries, User)
  IN  /\ \A id \in DOMAIN report : report[id] = LedgerBalance(AccountOf(id))
      /\ friendsOweMe(accounts, transactions, entries, User)
           = LedgerBalance(AccountOf(FriendsOweMe))

\* the report made after the expense on the card was soft-deleted still
\* counts it
C25_Witness ==
  /\ view.route = "analytics"
  /\ view.accountSummaries = accountSummaries(accounts, transactions, entries, User)
  /\ \E t \in TxOfCall(expenseCall) : t.deleted
  /\ transactions = TxOfCall(expenseCall)
  /\ view.accountSummaries[AppleCard] = -60000
  /\ Balances(User)[AppleCard] = -50000

-----------------------------------------------------------------------------
(* A transaction created through the route and then listed                 *)

\* requests whose explicit account ids name the user's own sink accounts
SinkRequests ==
  { [BaseRequest EXCEPT !.direction = d, !.accountId = id,
                        !.fromAccountId = from]
      : d \in {"expense", "income", "transfer"},
        id \in {ExpenseSink, IncomeSink},
        from \in {NoId, SofiChecking} }

RoundRequests == BuildRequests \cup SinkRequests

InitRound ==
  /\ accounts = SeededAccounts
  /\ transactions = {}
  /\ entries = {}
  /\ nextId = FirstFreeId
  /\ pc = [p \in Procs |-> IF p = 1 THEN "build" ELSE "done"]
  /\ \E r \in RoundRequests : req = [p \in Procs |-> r]
  /\ missing = [p \in Procs |-> <<>>]
  /\ built = [p \in Procs |-> <<>>]
  /\ resp = [p \in Procs |-> NoResp]
  /\ seenDone = [p \in Procs |-> {}]
  /\ view = NoView
  /\ client = NoClient
  /\ limiter = NoLimiter

NextRound ==
  \/ \E p \in Procs : Build(p)
  \/ \E p \in Procs : Rpc(p)
  \/ ListGet(User)

SpecRound == InitRound /\ [][NextRound]_vars

\* the kind a request is submitted as: the handler's branches are expense,
\* income, friend settlement, transfer
SubmittedKind(r) ==
  IF r.direction \in {"expense", "income"} THEN r.direction ELSE "transfer"

\* C26: every transaction committed through the create route is listed
\* with the direction it was submitted as (expense, income, or transfer for
\* a transfer and for a friend settlement), whatever account hint the
\* request carried, the ids of the user's own sink accounts included.
C26_DirectionRoundTrip ==
  \A p \in Procs :
    (req[p].via = "route" /\ resp[p] # NoResp /\ resp[p].ok
     /\ view.route = "list" /\ resp[p].transactionId \in DOMAIN view.direction)
      => view.direction[resp[p].transactionId] = SubmittedKind(req[p])

\* a transfer from checking into the expense sink has been committed and
\* listed
C26_Witness ==
  /\ req[1].direction = "transfer" /\ req[1].accountId = ExpenseSink
  /\ req[1].fromAccountId = SofiChecking
  /\ resp[1] # NoResp /\ resp[1].ok
  /\ view.route = "list"
  /\ resp[1].transactionId \in DOMAIN view.direction
  /\ view.direction[resp[1].transactionId] = "expense"

-----------------------------------------------------------------------------
(* Conservation over the accounts of one user                              *)

\* the sum over a set of accounts of balance minus starting balance
RECURSIVE SumDrift(_, _)
SumDrift(bal, accs) ==
  IF accs = {} THEN 0
  ELSE LET a == CHOOSE x \in accs : TRUE
       IN  (bal[a.id] - a.initial) + SumDrift(bal, accs \ {a})

\* C27: in every state reached by creates, soft deletes and restores, the
\* sum over all accounts of one user, the sink accounts included, of balance
\* minus starting balance is 0.
C27_Conservation ==
  \A u \in {User, Other} :
    SumDrift(Balances(u), {a \in Range(accounts) : a.user = u}) = 0

\* one transaction counted and one soft-deleted, an account away from its
\* starting balance
C27_Witness ==
  /\ \E t \in transactions : t.user = User /\ ~t.deleted
                             /\ \E e \in entries : e.tx = t.id
  /\ \E t \in transactions : t.user = User /\ t.deleted
                             /\ \E e \in entries : e.tx = t.id
  /\ \E a \in Range(accounts) :
       a.user = User /\ Balances(User)[a.id] # a.initial

-----------------------------------------------------------------------------
(* Bootstrap calls of concurrent first creates                             *)

\* Account lists before the first create: a user with no account yet, and
\* a user whose sink accounts are missing
BootAccounts ==
  { Without(SeededAccounts, 1..Len(requiredAccounts)),
    Without(SeededAccounts, {IncomeSink, ExpenseSink}) }

InitBoot ==
  /\ accounts \in BootAccounts
  /\ transactions = {}
  /\ entries = {}
  /\ nextId = FirstFreeId
  /\ pc = [p \in Procs |-> "idle"]
  /\ req = [p \in Procs |-> BaseRequest]
  /\ missing = [p \in Procs |-> <<>>]
  /\ built = [p \in Procs |-> <<>>]
  /\ resp = [p \in Procs |-> NoResp]
  /\ seenDone = [p \in Procs |-> {}]
  /\ view = NoView
  /\ client = NoClient
  /\ limiter = NoLimiter

NextBoot ==
  \/ \E p \in Procs, r \in RouteRequests : Lookup(p, r)
  \/ \E p \in Procs : BootstrapFails(p)
  \/ \E p \in Procs : BootstrapRead(p)
  \/ \E p \in Procs : BootstrapInsert(p)
  \/ \E p \in Procs : Build(p)
  \/ \E p \in Procs : Rpc(p)

SpecBoot == InitBoot /\ [][NextBoot]_vars

\* the accounts the user had before any bootstrap call: bootstrap inserts
\* under fresh ids
AccountsBefore == SelectSeq(UserAccounts(accounts, User), LAMBDA a : a.id <= Foreign)

NameAndType(accs) == {<<a.name, a.type>> : a \in Range(accs)}

OfType(t) == {a \in Range(UserAccounts(accounts, User)) : a.type = t}

\* some bootstrap call has inserted, or had nothing to insert
BootstrapRan ==
  \/ \E a \in Range(accounts) : a.id > Foreign
  \/ missingAccounts(AccountsBefore) = <<>>

\* C28: after any interleaving of bootstrap calls for one user the user has
\* exactly one income-sink account and exactly one expense-sink account, and
\* the same accounts as after a single bootstrap call.
C28_BootstrapOnce ==
  (BootstrapRan /\ \A p \in Procs : pc[p] # "bootins") =>
    /\ Cardinality(OfType("income")) = 1
    /\ Cardinality(OfType("expense")) = 1
    /\ Len(UserAccounts(accounts, User))
         = Len(AccountsBefore) + Len(missingAccounts(AccountsBefore))
    /\ NameAndType(UserAccounts(accounts, User))
         = NameAndType(AccountsBefore) \cup NameAndType(missingAccounts(AccountsBefore))

\* two first creates of a user without sink accounts have both run their
\* bootstrap, and the user has two income sinks and two expense sinks
C28_Witness ==
  /\ \A p \in Procs : pc[p] \in {"build", "rpc", "done"} /\ req[p].user = User
  /\ Len(AccountsBefore) = Len(requiredAccounts) - 2
  /\ Cardinality(OfType("income")) = 2
  /\ Cardinality(OfType("expense")) = 2

-----------------------------------------------------------------------------
(* POST /api/accounts/delete next to the create route                      *)

\* a transaction_entries table whose account_id has no foreign key
entries_account_restrict_off(rows, id) == FALSE

\* account_id references accounts(id) on delete restrict: TRUE when the
\* delete of the account row violates it
entries_account_restrict(rows, id) == \E e \in rows : e.account = id

\* .from("accounts").delete().eq("id", id).eq("user_id", user): the table
\* after the statement and its error, if any
deleteAccountRow(accs, rows, user, id) ==
  IF ~ \E a \in Range(accs) : a.id = id /\ a.user = user
  THEN [error |-> "", accs |-> accs]
  ELSE IF entries_account_restrict(rows, id)
  THEN [error |-> "delete_account", accs |-> accs]
  ELSE [error |-> "", accs |-> Without(accs, {id})]

DeleteRequest(user, id) ==
  [BaseRequest EXCEPT !.via = "delete", !.direction = "delete", !.user = user,
                      !.accountId = id]

\* the handler up to its usage check: transaction_entries of the account,
\* limit 1
DeleteAccountCheck(p, u, id) ==
  /\ pc[p] = "idle"
  /\ req' = [req EXCEPT ![p] = DeleteRequest(u, id)]
  /\ IF \E e \in entries : e.account = id
     THEN /\ resp' = [resp EXCEPT ![p] = ErrResp(400, "account_in_use")]
          /\ pc' = [pc EXCEPT ![p] = "done"]
     ELSE /\ resp' = resp
          /\ pc' = [pc EXCEPT ![p] = "delete"]
  /\ UNCHANGED <<view, client, limiter, accounts, transactions, entries, nextId,
                 missing, built, seenDone>>

\* the delete statement and the response
DeleteAccountRun(p) ==
  /\ pc[p] = "delete"
  /\ LET s == deleteAccountRow(accounts, entries, req[p].user, req[p].accountId)
     IN  /\ accounts' = s.accs
         /\ resp' = [resp EXCEPT ![p] = IF s.error = "" THEN OkResp(NoId, FALSE)
                                        ELSE ErrResp(500, s.error)]
  /\ pc' = [pc EXCEPT ![p] = "done"]
  /\ UNCHANGED <<view, client, limiter, transactions, entries, nextId, req,
                 missing, built, seenDone>>

NextAccounts ==
  \/ \E p \in Procs, r \in RouteRequests : Lookup(p, r)
  \/ \E p \in Procs : BootstrapFails(p)
  \/ \E p \in Procs : BootstrapRead(p)
  \/ \E p \in Procs : BootstrapInsert(p)
  \/ \E p \in Procs : Build(p)
  \/ \E p \in Procs : Rpc(p)
  \/ \E id \in TxIds : DeleteTransaction(User, id)
  \/ \E p \in Procs, u \in {User, Other},
          id \in {AppleCard, SofiChecking, ExpenseSink, FriendsOweMe, Foreign} :
       DeleteAccountCheck(p, u, id)
  \/ \E p \in Procs : DeleteAccountRun(p)

SpecAccounts == InitRead /\ [][NextAccounts]_vars

\* C29: in every state every persisted entry references an existing account
\* owned by the owner of its transaction, so an account that has an entry,
\* even of a soft-deleted transaction, is never deleted, also when the
\* account delete runs concurrently with a create that uses the account.
C29_ReferentialIntegrity ==
  \A e \in entries :
    \E t \in transactions, a \in Range(accounts) :
      t.id = e.tx /\ a.id = e.account /\ a.user = t.user

\* the delete passed its usage check, the create committed an entry on the
\* account, and the delete statement was refused
C29_Witness ==
  \E p \in Procs :
    /\ req[p].via = "delete" /\ pc[p] = "done"
    /\ resp[p].http = 500 /\ resp[p].error = "delete_account"
    /\ \E e \in entries : e.account = req[p].accountId
    /\ \E a \in Range(accounts) : a.id = req[p].accountId

-----------------------------------------------------------------------------
(* The pages of GET /api/transactions/list                                 *)

\* pages and page sizes a client asks for
MaxPage == 2
MaxPageSize == 2

\* .order("transaction_date", desc).order("created_at", desc) over
\* transactions of one date: the newest first
RECURSIVE newestFirst(_)
newestFirst(txs) ==
  IF txs = {} THEN <<>>
  ELSE LET t == CHOOSE x \in txs : \A y \in txs : y.id <= x.id
       IN  <<t>> \o newestFirst(txs \ {t})

\* dataQuery.range(offset, offset + pageSize - 1)
range(list, offset, pageSize) ==
  SubSeq(list, offset + 1,
         IF offset + pageSize < Len(list) THEN offset + pageSize ELSE Len(list))

\* the route's hasMore
hasMore(isPostFiltered, length, pageSize, offset, totalCount) ==
  IF isPostFiltered THEN length = pageSize ELSE offset + length < totalCount

\* the transaction passes the direction and account filters whatever the
\* order in which its entries are returned
Matches(t, incomeAccountId, expenseAccountId, direction, account_id) ==
  LET rows == {e \in entries : e.tx = t.id}
  IN  /\ direction # "" =>
           \A o \in Orderings(rows) :
             deriveDirection(o, incomeAccountId, expenseAccountId) = direction
      /\ account_id # NoId => \E e \in rows : e.account = account_id

\* GET /api/transactions/list?page&pageSize&direction&account_id; `later`
\* records the transactions after this page that pass the filters
ListPageGet(u, page, pageSize, direction, account_id) ==
  LET accs == UserAccounts(accounts, u)
      incomeAccountId == internalAccountId(accs, "_Income")
      expenseAccountId == internalAccountId(accs, "_Expenses")
      all == newestFirst({t \in transactions : t.user = u /\ ~t.deleted})
      totalCount == Len(all)
      offset == (page - 1) * pageSize
      txs == range(all, offset, pageSize)
      rows == {e \in entries : \E k \in 1..Len(txs) : e.tx = txs[k].id}
      isPostFiltered == direction # "" \/ account_id # NoId
  IN  /\ \E fetched \in Orderings(rows) :
           LET derived == [id \in {txs[k].id : k \in 1..Len(txs)} |->
                             deriveDirection(txEntries(fetched, id),
                                             incomeAccountId, expenseAccountId)]
               enriched ==
                 SelectSeq(txs, LAMBDA t :
                   /\ direction # "" => derived[t.id] = direction
                   /\ account_id # NoId =>
                        \E e \in rows : e.tx = t.id /\ e.account = account_id)
           IN  view' = [route |-> "page", user |-> u, direction |-> derived,
                        page |-> page, pageSize |-> pageSize,
                        filter |-> <<direction, account_id>>,
                        transactions |-> [k \in 1..Len(enriched) |-> enriched[k].id],
                        hasMore |-> hasMore(isPostFiltered, Len(enriched), pageSize,
                                            offset, totalCount),
                        later |-> {all[k].id : k \in
                                     {j \in (offset + pageSize + 1)..Len(all) :
                                        Matches(all[j], incomeAccountId,
                                                expenseAccountId, direction,
                                                account_id)}}]
      /\ UNCHANGED <<client, limiter, accounts, transactions, entries, nextId, pc,
                     req, missing, built, resp, seenDone>>

NextPage ==
  \/ \E p \in Procs, c \in {expenseCall, incomeCall, transferCall} :
       DirectRpc(p, c)
  \/ \E p \in Procs : Rpc(p)
  \/ \E id \in TxIds : DeleteTransaction(User, id)
  \/ \E page \in 1..MaxPage, pageSize \in 1..MaxPageSize,
        direction \in {"", "expense"}, account_id \in {NoId, AppleCard} :
       ListPageGet(User, page, pageSize, direction, account_id)

SpecPage == InitRead /\ [][NextPage]_vars

\* C30: a listing filtered by direction or by account answers hasMore =
\* false only when no transaction passing the filter exists on any later
\* page, so that paging until hasMore is false visits every such
\* transaction.
C30_HasMoreComplete ==
  (view.route = "page" /\ view.filter # <<"", NoId>> /\ ~view.hasMore)
    => view.later = {}

\* page 1 of size 1 filtered by expense holds the newer income, answers no
\* transaction and hasMore = false, and the expense is on page 2
C30_Witness ==
  /\ view.route = "page" /\ view.page = 1 /\ view.pageSize = 1
  /\ view.filter = <<"expense", NoId>>
  /\ view.transactions = <<>> /\ ~view.hasMore
  /\ \E t \in TxOfCall(expenseCall) : view.later = {t.id} /\ ~t.deleted

=============================================================================
